---- MODULE Spec2Model ----
(***************************************************************************)
(* A model of filechain: the Block value object, the Blockchain with its   *)
(* two indexes (block hash -> block, file hash -> content hash -> block    *)
(* hashes) and the operations insert_block, merge_blocks and the read      *)
(* operations, translated from src/filechain/blockchain/{block,chain}.py.  *)
(*                                                                         *)
(* Byte strings are sequences of byte values.  A Python exception is the   *)
(* string held in the field "raised" of an operation's result ("None" when *)
(* the call returned normally); the chain an operation leaves behind, also *)
(* when it raises half way, is the field "self" of the result.             *)
(***************************************************************************)
EXTENDS Integers, Sequences, FiniteSets, TLC

----------------------------------------------------------------------------
(* Bounds of the model *)

\* calls (insert_block, merge_blocks) in one behaviour, over all chains
MaxCalls == 4

\* blocks inserted before verify_blocks_integrity is asked, and the length of
\* the lists it is asked about
MaxBuilt == 3

\* the chains (one per node) that exchange blocks
Chains == {1, 2}

----------------------------------------------------------------------------
(* Python values *)

\* None, where the code holds an optional bytes value
None == <<-1>>

\* bytes(n): n zero bytes (block.py:53,55 call bytes() on the integers index_all and index)
bytes(n) == [i \in 1..n |-> 0]

\* hashlib.sha256(s).digest(), taken to be collision free. A digest has a fixed
\* width, so the end of a digest inside a longer byte string is never in doubt:
\* the value 256, which is no byte, marks where a digest starts.
sha256(s) == <<256>> \o s

\* reversed(seq) / list.reverse()
reversed(s) == [i \in 1..Len(s) |-> s[Len(s) + 1 - i]]

\* list.insert(i, x): x goes before position i (0-based), at the end when i >= len
list_insert(s, i, x) ==
    IF i >= Len(s) THEN Append(s, x)
    ELSE SubSeq(s, 1, i) \o <<x>> \o SubSeq(s, i + 1, Len(s))

----------------------------------------------------------------------------
(* Block (block.py) *)

\* a block hash that leaves the predecessor's hash out
set_block_hash_without_previous(b) ==
    [b EXCEPT !.block_hash = sha256(b.file_hash \o bytes(b.index_all) \o b.chunk
                                    \o bytes(b.index))]

\* Block.__set_block_hash
set_block_hash(b) ==
    [b EXCEPT !.block_hash = sha256(b.file_hash \o bytes(b.index_all) \o b.chunk
                                    \o bytes(b.index) \o b.previous_block_hash)]

\* a setter that leaves the block hash as it was
set_previous_block_hash_only(b, block_hash) ==
    [b EXCEPT !.previous_block_hash = block_hash]

\* the setter of Block.previous_block_hash
set_previous_block_hash(b, block_hash) ==
    set_block_hash([b EXCEPT !.previous_block_hash = block_hash])

\* the first assertion of Block.__init__ alone
BlockArgsOk_index_all_only(index_all, index) == index_all > 0

\* the two assertions of Block.__init__
BlockArgsOk(index_all, index) == index_all > 0 /\ index_all > index /\ index >= 0

\* Block.__init__ without previous_block_hash
Block(file_hash, index_all, chunk, index) ==
    [file_hash |-> file_hash, index_all |-> index_all, chunk |-> chunk, index |-> index,
     content_hash |-> sha256(file_hash \o bytes(index_all) \o chunk \o bytes(index)),
     previous_block_hash |-> None, block_hash |-> None]

\* Blockchain.INITIAL_BLOCK
INITIAL_BLOCK == set_previous_block_hash(Block(<<>>, 1, <<>>, 0), bytes(0))

\* the four construction arguments of a block
Payload(b) == <<b.file_hash, b.index_all, b.chunk, b.index>>

----------------------------------------------------------------------------
(* The files index: self.__files, a defaultdict of defaultdict(list).        *)
(* One file's dict is [index_all, buckets]: buckets lists the content-hash    *)
(* keys in the dict's insertion order, each with its list of block hashes;    *)
(* index_all is the value under the key "index_all".                          *)

\* the key "index_all" is not in the dict
KeyAbsent == 0
\* the key "index_all" holds [], which the defaultdict stored when it was read while absent
EmptyList == -1

\* a dict the outer defaultdict creates on first access
NewFileDict == [index_all |-> KeyAbsent, buckets |-> <<>>]

\* a length that counts the content-hash keys only
dict_len_without_index_all(fb) == Len(fb.buckets)

\* len(file_blocks): the content-hash keys and the key "index_all"
dict_len(fb) == Len(fb.buckets) + (IF fb.index_all = KeyAbsent THEN 0 ELSE 1)

\* a membership test that finds every key
has_key_any(fb, content_hash) == TRUE

\* content_hash in file_blocks
has_key(fb, content_hash) ==
    \E i \in 1..Len(fb.buckets) : fb.buckets[i].content_hash = content_hash

\* file_blocks[content_hash] of a key that is there
bucket(fb, content_hash) ==
    LET i == CHOOSE k \in 1..Len(fb.buckets) : fb.buckets[k].content_hash = content_hash
    IN  fb.buckets[i].block_hashes

\* self.__files[file_hash]: the defaultdict creates the file's dict when missing
files_touch(files, file_hash) ==
    IF file_hash \in DOMAIN files THEN files ELSE (file_hash :> NewFileDict) @@ files

\* self.__files[file_hash][content_hash].append(block_hash)
files_append(files, file_hash, content_hash, block_hash) ==
    LET fs == files_touch(files, file_hash)
        fb == fs[file_hash]
    IN  IF has_key(fb, content_hash)
        THEN [fs EXCEPT ![file_hash].buckets =
                 [i \in 1..Len(fb.buckets) |->
                     IF fb.buckets[i].content_hash = content_hash
                     THEN [fb.buckets[i] EXCEPT !.block_hashes = Append(@, block_hash)]
                     ELSE fb.buckets[i]]]
        ELSE [fs EXCEPT ![file_hash].buckets =
                 Append(@, [content_hash |-> content_hash, block_hashes |-> <<block_hash>>])]

\* self.__files[file_hash][content_hash]: the defaultdicts create what is missing
files_touch_key(files, file_hash, content_hash) ==
    LET fs == files_touch(files, file_hash)
    IN  IF has_key(fs[file_hash], content_hash) THEN fs
        ELSE [fs EXCEPT ![file_hash].buckets =
                 Append(@, [content_hash |-> content_hash, block_hashes |-> <<>>])]

\* self.__files[file_hash]["index_all"] = index_all
files_set_index_all(files, file_hash, index_all) ==
    [files_touch(files, file_hash) EXCEPT ![file_hash].index_all = index_all]

----------------------------------------------------------------------------
(* Blockchain (chain.py) *)

\* Blockchain.__init__ with chain=None
Blockchain ==
    [chain |-> (INITIAL_BLOCK.block_hash :> INITIAL_BLOCK),
     files |-> files_append(<<>>, INITIAL_BLOCK.file_hash, INITIAL_BLOCK.content_hash,
                            INITIAL_BLOCK.block_hash),
     latest_block |-> INITIAL_BLOCK]

\* Blockchain.len
len(self) == Cardinality(DOMAIN self.chain)

\* Blockchain.get_block_by_hash; None is <<>>, a block b is <<b>>
get_block_by_hash(self, block_hash) ==
    IF block_hash \in DOMAIN self.chain THEN <<self.chain[block_hash]>> ELSE <<>>

\* the result of a call: the chain it leaves, the exception it raised, its value
Result(self, raised, ret) == [self |-> self, raised |-> raised, ret |-> ret]

\* Blockchain.insert_block; ret is the block object as the call leaves it
insert_block(self, new_block) ==
    LET file_hash == new_block.file_hash
        found == file_hash \in DOMAIN self.files
        file_blocks == self.files[file_hash]
        truthy == found /\ dict_len(file_blocks) > 0
        fresh == truthy /\ ~has_key(file_blocks, new_block.content_hash)
    IN  IF fresh /\ file_blocks.index_all \in {KeyAbsent, EmptyList}
        THEN \* file_blocks["index_all"] + 1 with no integer under the key
             Result([self EXCEPT !.files[file_hash].index_all = EmptyList],
                    "TypeError", new_block)
        ELSE IF fresh /\ file_blocks.index_all + 1 = dict_len(file_blocks)
        THEN Result(self, "FileBlockSplitChangedException", new_block)
        ELSE
          LET files1 == IF truthy THEN self.files
                        ELSE files_set_index_all(self.files, file_hash, new_block.index_all)
              b == set_previous_block_hash(new_block, self.latest_block.block_hash)
          IN  Result([chain |-> (b.block_hash :> b) @@ self.chain,
                      files |-> files_append(files1, file_hash, b.content_hash, b.block_hash),
                      latest_block |-> b],
                     "None", b)

\* Blockchain.chain: the blocks from the latest one back to the one whose
\* previous_block_hash is bytes(0); fuel bounds the walk, which a cycle of
\* previous_block_hash pointers would keep going for ever ("NoReturn")
RECURSIVE chain_walk(_, _, _, _)
chain_walk(self, block, blocks, fuel) ==
    IF block.previous_block_hash = bytes(0) THEN Result(self, "None", blocks)
    ELSE IF fuel = 0 THEN Result(self, "NoReturn", blocks)
    ELSE IF block.previous_block_hash \notin DOMAIN self.chain
    THEN Result(self, "KeyError", blocks)
    ELSE LET prev == self.chain[block.previous_block_hash]
         IN  chain_walk(self, prev, Append(blocks, prev), fuel - 1)

chain(self) == chain_walk(self, self.latest_block, <<self.latest_block>>, len(self))

\* Blockchain.get_blocks_by_content
get_blocks_by_content(self, block) ==
    LET hashes == IF block.file_hash \in DOMAIN self.files
                     /\ has_key(self.files[block.file_hash], block.content_hash)
                  THEN bucket(self.files[block.file_hash], block.content_hash)
                  ELSE <<>>
    IN  IF \E i \in 1..Len(hashes) : hashes[i] \notin DOMAIN self.chain
        THEN Result(self, "KeyError", <<>>)
        ELSE Result(self, "None", [i \in 1..Len(hashes) |-> self.chain[hashes[i]]])

\* Blockchain.contains_file: len(file_blocks) == file_blocks["index_all"] + 1
contains_file(self, file_hash) ==
    IF file_hash \notin DOMAIN self.files THEN Result(self, "None", FALSE)
    ELSE LET file_blocks == self.files[file_hash]
         IN  IF file_blocks.index_all \in {KeyAbsent, EmptyList}
             THEN Result([self EXCEPT !.files[file_hash].index_all = EmptyList],
                         "TypeError", FALSE)
             ELSE Result(self, "None", dict_len(file_blocks) = file_blocks.index_all + 1)

\* the loop of Blockchain.get_file_blocks over the content-hash values of the dict
RECURSIVE get_file_blocks_loop(_, _, _, _)
get_file_blocks_loop(self, buckets, i, blocks) ==
    IF i > Len(buckets) THEN Result(self, "None", blocks)
    ELSE LET content_block_hashes == buckets[i].block_hashes
         IN  IF content_block_hashes = <<>> THEN Result(self, "IndexError", blocks)
             ELSE IF content_block_hashes[1] \notin DOMAIN self.chain
             THEN Result(self, "KeyError", blocks)
             ELSE LET block == self.chain[content_block_hashes[1]]
                  IN  get_file_blocks_loop(self, buckets, i + 1,
                                           list_insert(blocks, block.index, block))

\* Blockchain.get_file_blocks; a value [] under "index_all" is a list too, and
\* content_block_hashes[0] of it raises wherever the key stands in the dict
get_file_blocks(self, file_hash) ==
    IF file_hash \notin DOMAIN self.files THEN Result(self, "None", <<>>)
    ELSE LET file_blocks == self.files[file_hash]
         IN  IF file_blocks.index_all = EmptyList THEN Result(self, "IndexError", <<>>)
             ELSE get_file_blocks_loop(self, file_blocks.buckets, 1, <<>>)

\* the counting step without the deletion of a file whose count reached zero
count_block_keeping_key(file_block_numbers, block) ==
    IF block.file_hash \in DOMAIN file_block_numbers
    THEN [file_block_numbers EXCEPT ![block.file_hash] = @ - 1]
    ELSE (block.file_hash :> block.index_all - 1) @@ file_block_numbers

\* one step of the counting of verify_integrity: file_block_numbers after block
\* (a function file_hash -> remaining blocks; a deleted key leaves the domain)
count_block(file_block_numbers, block) ==
    IF block.file_hash \in DOMAIN file_block_numbers
    THEN IF file_block_numbers[block.file_hash] - 1 = 0
         THEN [h \in DOMAIN file_block_numbers \ {block.file_hash} |-> file_block_numbers[h]]
         ELSE [file_block_numbers EXCEPT ![block.file_hash] = @ - 1]
    ELSE (block.file_hash :> block.index_all - 1) @@ file_block_numbers

\* the while loop of Blockchain.verify_integrity and the two checks after it
RECURSIVE verify_walk(_, _, _, _)
verify_walk(self, curr_block, file_block_numbers, fuel) ==
    IF curr_block.previous_block_hash = bytes(0)
    THEN IF curr_block.block_hash # INITIAL_BLOCK.block_hash
         THEN Result(self, "None", FALSE)
         ELSE Result(self, "None", DOMAIN file_block_numbers = {})
    ELSE IF fuel = 0 THEN Result(self, "NoReturn", FALSE)
    ELSE IF curr_block.previous_block_hash \notin DOMAIN self.chain
    THEN Result(self, "None", FALSE)
    ELSE LET prev == self.chain[curr_block.previous_block_hash]
         IN  verify_walk(self, prev,
                         IF prev.index_all - 1 > 0
                         THEN count_block(file_block_numbers, prev)
                         ELSE file_block_numbers,
                         fuel - 1)

\* Blockchain.verify_integrity
verify_integrity(self) ==
    LET curr_block == self.latest_block
    IN  verify_walk(self, curr_block,
                    IF curr_block.index_all - 1 > 0
                    THEN (curr_block.file_hash :> curr_block.index_all - 1)
                    ELSE <<>>,
                    len(self))

\* a check of the first block's link only, the links inside the list left out
verify_first_link_only(self, blocks) ==
    IF blocks # <<>> /\ blocks[1].previous_block_hash \in DOMAIN self.chain
    THEN "True" ELSE "None"

\* Blockchain.verify_blocks_integrity: "True", "False" or "None"
RECURSIVE verify_blocks_loop(_, _, _)
verify_blocks_loop(self, blocks, i) ==
    IF i < 1 THEN "None"
    ELSE IF i = 1
    THEN IF blocks[1].previous_block_hash \in DOMAIN self.chain THEN "True"
         ELSE verify_blocks_loop(self, blocks, i - 1)
    ELSE IF blocks[i - 1].block_hash # blocks[i].previous_block_hash THEN "False"
    ELSE verify_blocks_loop(self, blocks, i - 1)

verify_blocks_integrity(self, blocks) == verify_blocks_loop(self, blocks, Len(blocks))

\* list.remove(x): the list without the first x
list_remove(s, x) ==
    LET i == CHOOSE k \in 1..Len(s) : s[k] = x /\ \A j \in 1..(k - 1) : s[j] # x
    IN  SubSeq(s, 1, i - 1) \o SubSeq(s, i + 1, Len(s))

\* a removal that leaves the bucket as it was
files_remove_nothing(files, file_hash, content_hash, block_hash) == files

\* self.__files[file_hash][content_hash].remove(block_hash), for a hash in the list
files_remove(files, file_hash, content_hash, block_hash) ==
    LET fb == files[file_hash]
    IN  [files EXCEPT ![file_hash].buckets =
            [i \in 1..Len(fb.buckets) |->
                IF fb.buckets[i].content_hash = content_hash
                THEN [fb.buckets[i] EXCEPT !.block_hashes = list_remove(@, block_hash)]
                ELSE fb.buckets[i]]]

\* whether list.remove finds block_hash in self.__files[file_hash][content_hash]
files_listed(files, file_hash, content_hash, block_hash) ==
    /\ file_hash \in DOMAIN files
    /\ has_key(files[file_hash], content_hash)
    /\ \E k \in 1..Len(bucket(files[file_hash], content_hash)) :
           bucket(files[file_hash], content_hash)[k] = block_hash

\* merge_blocks, first loop (chain.py:289-300), over reversed(new_blocks): i runs
\* from len(new_blocks) down to 1. The result's ret is [added_blocks,
\* starting_conflicted_block], the latter <<>> for None
RECURSIVE merge_add(_, _, _, _, _)
merge_add(self, new_blocks, i, added_blocks, starting_conflicted_block) ==
    IF i < 1
    THEN Result(self, "None", [added_blocks |-> added_blocks,
                               starting_conflicted_block |-> starting_conflicted_block])
    ELSE LET block == new_blocks[i]
         IN  IF block.block_hash \in DOMAIN self.chain
             THEN merge_add(self, new_blocks, i - 1, added_blocks, starting_conflicted_block)
             ELSE LET chain1 == (block.block_hash :> block) @@ self.chain
                      files1 == files_set_index_all(
                                    files_append(self.files, block.file_hash,
                                                 block.content_hash, block.block_hash),
                                    block.file_hash, block.index_all)
                      self1 == [self EXCEPT !.chain = chain1, !.files = files1]
                  IN  merge_add(self1, new_blocks, i - 1, Append(added_blocks, block),
                                IF block.previous_block_hash \in DOMAIN chain1
                                THEN <<chain1[block.previous_block_hash]>>
                                ELSE starting_conflicted_block)

\* the walk over the conflicted blocks that leaves them in the chain and in the
\* files index
RECURSIVE merge_remove_keeping_blocks(_, _, _, _)
merge_remove_keeping_blocks(self, cur_block, starting_conflicted_block, conflicted_blocks) ==
    IF cur_block.block_hash = starting_conflicted_block.block_hash
    THEN Result(self, "None", conflicted_blocks)
    ELSE IF cur_block.previous_block_hash \notin DOMAIN self.chain
    THEN Result(self, "KeyError", Append(conflicted_blocks, cur_block))
    ELSE merge_remove_keeping_blocks(self, self.chain[cur_block.previous_block_hash],
                                     starting_conflicted_block,
                                     Append(conflicted_blocks, cur_block))

\* merge_blocks, the loop that finds and removes the conflicted blocks
\* (chain.py:318-324); ret is conflicted_blocks
RECURSIVE merge_remove(_, _, _, _)
merge_remove(self, cur_block, starting_conflicted_block, conflicted_blocks) ==
    IF cur_block.block_hash = starting_conflicted_block.block_hash
    THEN Result(self, "None", conflicted_blocks)
    ELSE IF cur_block.block_hash \notin DOMAIN self.chain
    THEN Result(self, "KeyError", conflicted_blocks)
    ELSE
      LET chain1 == [h \in DOMAIN self.chain \ {cur_block.block_hash} |-> self.chain[h]]
          conflicted1 == Append(conflicted_blocks, cur_block)
      IN  IF ~files_listed(self.files, cur_block.file_hash, cur_block.content_hash,
                           cur_block.block_hash)
          THEN \* the defaultdicts create the file's dict and the list, then remove raises
               Result([self EXCEPT !.chain = chain1,
                                   !.files = files_touch_key(self.files, cur_block.file_hash,
                                                             cur_block.content_hash)],
                      "ValueError", conflicted1)
          ELSE LET self1 == [self EXCEPT !.chain = chain1,
                                         !.files = files_remove(self.files, cur_block.file_hash,
                                                                cur_block.content_hash,
                                                                cur_block.block_hash)]
               IN  IF cur_block.previous_block_hash \notin DOMAIN chain1
                   THEN Result(self1, "KeyError", conflicted1)
                   ELSE merge_remove(self1, chain1[cur_block.previous_block_hash],
                                     starting_conflicted_block, conflicted1)

\* a merge that leaves the conflicted blocks out of the chain
merge_reinsert_nothing(self, conflicted_blocks, i, added_blocks) ==
    Result(self, "None", added_blocks)

\* a merge that inserts the first conflicted block again and leaves the others
\* out of the chain
merge_reinsert_first(self, conflicted_blocks, i, added_blocks) ==
    IF conflicted_blocks = <<>> THEN Result(self, "None", added_blocks)
    ELSE LET r == insert_block(self, conflicted_blocks[1])
         IN  Result(r.self, r.raised,
                    added_blocks \o <<r.ret>>
                        \o SubSeq(conflicted_blocks, 2, Len(conflicted_blocks)))

\* merge_blocks, the loop that inserts the conflicted blocks again (chain.py:328-331)
RECURSIVE merge_reinsert(_, _, _, _)
merge_reinsert(self, conflicted_blocks, i, added_blocks) ==
    IF i > Len(conflicted_blocks) THEN Result(self, "None", added_blocks)
    ELSE LET r == insert_block(self, conflicted_blocks[i])
         IN  IF r.raised # "None" THEN Result(r.self, r.raised, added_blocks)
             ELSE merge_reinsert(r.self, conflicted_blocks, i + 1, Append(added_blocks, r.ret))

\* the added blocks left in the order of the first loop, newest first
added_order_unreversed(added_blocks) == added_blocks

\* added_blocks.reverse() (chain.py:302): the added blocks oldest first
added_order(added_blocks) == reversed(added_blocks)

\* the conflicted blocks left in the order of the walk, newest first
conflicted_order_unreversed(conflicted_blocks) == conflicted_blocks

\* conflicted_blocks.reverse() (chain.py:326): the conflicted blocks oldest first
conflicted_order(conflicted_blocks) == reversed(conflicted_blocks)

\* Blockchain.merge_blocks; ret is the list of added blocks (<<>> when it raises)
merge_blocks(self, new_blocks) ==
    LET first == merge_add(self, new_blocks, Len(new_blocks), <<>>, <<>>)
        self1 == first.self
        added_blocks == added_order(first.ret.added_blocks)
        starting == first.ret.starting_conflicted_block
    IN  IF starting = <<>>
        THEN \* starting_conflicted_block.block_hash of None
             Result(self1, "AttributeError", <<>>)
        ELSE IF starting[1].block_hash = self1.latest_block.block_hash
        THEN Result(IF added_blocks # <<>>
                    THEN [self1 EXCEPT !.latest_block = added_blocks[Len(added_blocks)]]
                    ELSE self1,
                    "None", added_blocks)
        ELSE IF added_blocks = <<>> THEN Result(self1, "IndexError", <<>>)
        ELSE
          LET cur_block == self1.latest_block
              self2 == [self1 EXCEPT !.latest_block = added_blocks[Len(added_blocks)]]
              removed == merge_remove(self2, cur_block, starting[1], <<>>)
          IN  IF removed.raised # "None" THEN Result(removed.self, removed.raised, <<>>)
              ELSE LET again == merge_reinsert(removed.self, conflicted_order(removed.ret), 1,
                                               added_blocks)
                   IN  IF again.raised # "None" THEN Result(again.self, again.raised, <<>>)
                       ELSE again

----------------------------------------------------------------------------
(* The state: the chains of the nodes and the record of the last call *)

VARIABLES
    chains,     \* chains[c]: the Blockchain object of node c
    last,       \* the last call: operation, chain, argument, outcome, chain before
    calls,      \* calls so far
    lock,       \* lock[n]: whether node n's chain lock is locked (server.py:50)
    threads,    \* the request handlers that are running (server.py:270-274)
    net,        \* NEW_BLOCKS_AVAILABLE announcements sent and not yet handled
    acked,      \* acked[n]: the payloads of the batches node n answered with OK
    known       \* known[n]: __known_server_addresses of node n (server.py:31)

\* the state of the servers around the chains
server == <<lock, threads, net, acked, known>>

vars == <<chains, last, calls, lock, threads, net, acked, known>>

\* the blocks clients hand to insert_block. File hashes: E (empty, the genesis
\* block's) and F; chunks: X and X0 (X and a zero byte). F comes as a file of
\* one chunk, of two chunks and of three chunks, whose second chunk is X or X0
Inputs ==
    { Block(a[1], a[2], a[3], a[4]) :
        a \in { <<<<1>>, 1, <<7>>, 0>>,
                <<<<1>>, 2, <<7>>, 0>>,
                <<<<1>>, 3, <<7>>, 0>>,  <<<<1>>, 3, <<7>>, 1>>,  <<<<1>>, 3, <<7>>, 2>>,
                <<<<1>>, 3, <<7, 0>>, 1>>,
                <<<<>>, 1, <<>>, 0>>,    <<<<>>, 1, <<7>>, 0>> } }

\* the chain listing oldest to newest, as the tests and the broadcasts pass blocks
oldest_first(self) == reversed(chain(self).ret)

Init ==
    /\ chains = [c \in Chains |-> Blockchain]
    /\ last = [op |-> "none"]
    /\ calls = 0
    /\ lock = [n \in Chains |-> FALSE]
    /\ threads = {}
    /\ net = {}
    /\ acked = [n \in Chains |-> {}]
    /\ known = [n \in Chains |-> Chains \ {n}]

\* a client's block reaches chain c: Blockchain.insert_block(new_block)
InsertBlock(c, new_block) ==
    /\ calls < MaxCalls
    /\ LET r == insert_block(chains[c], new_block)
       IN  /\ chains' = [chains EXCEPT ![c] = r.self]
           /\ last' = [op |-> "insert_block", c |-> c, arg |-> new_block,
                       raised |-> r.raised, ret |-> r.ret, before |-> chains[c]]
    /\ calls' = calls + 1
    /\ UNCHANGED server

\* the lists a node sends of its chain: the empty one and every run of
\* consecutive blocks of the listing, oldest first
Segments(self) ==
    LET blocks == oldest_first(self)
    IN  IF chain(self).raised # "None" THEN {}
        ELSE {<<>>} \cup {SubSeq(blocks, lo, hi) : lo \in 1..Len(blocks), hi \in 1..Len(blocks)}

\* chain c merges a list of blocks of the chain of another node d (copies, as
\* they come off the wire): Blockchain.merge_blocks(new_blocks). The list is
\* empty or one that verify_blocks_integrity accepts (server.py:149,168,175)
MergeBlocks(c, d, new_blocks) ==
    /\ calls < MaxCalls
    /\ c # d
    /\ new_blocks = <<>> \/ verify_blocks_integrity(chains[c], new_blocks) = "True"
    /\ LET r == merge_blocks(chains[c], new_blocks)
       IN  /\ chains' = [chains EXCEPT ![c] = r.self]
           /\ last' = [op |-> "merge_blocks", c |-> c, arg |-> new_blocks,
                       raised |-> r.raised, ret |-> r.ret, before |-> chains[c]]
    /\ calls' = calls + 1
    /\ UNCHANGED server

Next ==
    \/ \E c \in Chains, new_block \in Inputs : InsertBlock(c, new_block)
    \/ \E c \in Chains : \E d \in Chains \ {c} :
         \E new_blocks \in Segments(chains[d]) : MergeBlocks(c, d, new_blocks)

Spec == Init /\ [][Next]_vars

----------------------------------------------------------------------------
(* Notions the claims are stated in, read off the state and not off the      *)
(* operations they are about                                                 *)

\* the file hashes of the blocks of Inputs and of the genesis block
FileHashes == {<<>>, <<1>>}

\* the blocks stored in a chain
StoredBlocks(self) == {self.chain[h] : h \in DOMAIN self.chain}

\* the content hashes recorded for a file in the files index
RecordedContents(self, file_hash) ==
    IF file_hash \in DOMAIN self.files
    THEN {self.files[file_hash].buckets[i].content_hash :
             i \in 1..Len(self.files[file_hash].buckets)}
    ELSE {}

\* the last call was op and returned normally
Returned(op) == last.op = op /\ last.raised = "None"

----------------------------------------------------------------------------
(* C1 *)

\* C1: an insert_block(b) that does not raise sets b.previous_block_hash to the
\* hash the tip had before the call, computes b.block_hash, makes b retrievable
\* by that hash, makes b the tip and makes the chain one block longer, whether
\* or not b's payload was stored before.
C1_InsertLinksBlock ==
    Returned("insert_block") =>
        LET self == chains[last.c]
            b == last.ret
        IN  /\ Payload(b) = Payload(last.arg)
            /\ b.previous_block_hash = last.before.latest_block.block_hash
            /\ b.block_hash # None
            /\ get_block_by_hash(self, b.block_hash) = <<b>>
            /\ self.latest_block = b
            /\ len(self) = len(last.before) + 1

\* an insert that returned, of a payload the chain already held
C1_Witness ==
    /\ Returned("insert_block")
    /\ \E old \in StoredBlocks(last.before) : Payload(old) = Payload(last.arg)
    /\ len(last.before) >= 3

----------------------------------------------------------------------------
(* C2 *)

\* the condition under which C2 says insert_block raises
SplitChanged(self, new_block) ==
    /\ new_block.file_hash \in DOMAIN self.files
    /\ new_block.content_hash \notin RecordedContents(self, new_block.file_hash)
    /\ Cardinality(RecordedContents(self, new_block.file_hash))
           = self.files[new_block.file_hash].index_all

----------------------------------------------------------------------------
(* C3 *)

\* the blocks of a file stored in a chain
FileBlocks(self, file_hash) == {b \in StoredBlocks(self) : b.file_hash = file_hash}

\* the chain holds a block of the file for every index below the recorded index_all
EveryIndexPresent(self, file_hash) ==
    /\ FileBlocks(self, file_hash) # {}
    /\ \A i \in 0..(self.files[file_hash].index_all - 1) :
           \E b \in FileBlocks(self, file_hash) : b.index = i

\* C3: contains_file(h) is true if and only if the chain holds, for every index
\* below index_all(h), a block of file h with that index; it is false for a file
\* without a block. (Stated for the calls that return.)
C3_ContainsFileIffEveryIndex ==
    \A c \in Chains, h \in FileHashes :
        LET r == contains_file(chains[c], h)
        IN  r.raised = "None" => (r.ret <=> EveryIndexPresent(chains[c], h))

----------------------------------------------------------------------------
(* C4 *)

\* a file that is complete in every sense: contains_file says so, every index
\* has a block and all its blocks agree on index_all
CompleteFile(self, file_hash) ==
    /\ contains_file(self, file_hash).raised = "None"
    /\ contains_file(self, file_hash).ret
    /\ EveryIndexPresent(self, file_hash)
    /\ \A b \in FileBlocks(self, file_hash) : b.index_all = self.files[file_hash].index_all

\* C4: for a complete file get_file_blocks returns index_all distinct blocks of
\* the file, the block at position i having index i, whatever the order in which
\* the blocks entered the chain; for a file hash not in the chain it returns [].
C4_FileBlocksInIndexOrder ==
    \A c \in Chains, h \in FileHashes :
        LET r == get_file_blocks(chains[c], h)
        IN  /\ CompleteFile(chains[c], h) =>
                /\ r.raised = "None"
                /\ Len(r.ret) = chains[c].files[h].index_all
                /\ \A i \in 1..Len(r.ret) :
                       /\ r.ret[i] \in FileBlocks(chains[c], h)
                       /\ r.ret[i].index = i - 1
            /\ FileBlocks(chains[c], h) = {} => r.raised = "None" /\ r.ret = <<>>

----------------------------------------------------------------------------
(* C5 - C8: merge_blocks *)

\* the chain read from genesis to the tip
Listing(self) == oldest_first(self)

\* the blocks of a list that a chain does not hold yet, in the list's order
NotPresent(self, blocks) == SelectSeq(blocks, LAMBDA b : b.block_hash \notin DOMAIN self.chain)

\* the hashes of the blocks of a list
Hashes(blocks) == {blocks[i].block_hash : i \in 1..Len(blocks)}

\* the payloads of the blocks of a list, in order
Payloads(blocks) == [i \in 1..Len(blocks) |-> Payload(blocks[i])]

\* the position of the block with hash h in a list (0 when it is not there)
Position(blocks, h) ==
    IF \E i \in 1..Len(blocks) : blocks[i].block_hash = h
    THEN CHOOSE i \in 1..Len(blocks) : blocks[i].block_hash = h
    ELSE 0

\* blocks[i] is linked to its predecessor in the list, the first one to hash h
LinkedFrom(blocks, h) ==
    \A i \in 1..Len(blocks) :
        /\ blocks[i].previous_block_hash = (IF i = 1 THEN h ELSE blocks[i - 1].block_hash)
        /\ blocks[i] = set_block_hash(blocks[i])

\* the blocks of the last merge_blocks call that were new to the chain
Fresh == NotPresent(last.before, last.arg)

\* the last call was merge_blocks of blocks that fork off a block of the local
\* chain that is not its tip
ConflictMerge ==
    /\ last.op = "merge_blocks"
    /\ Fresh # <<>>
    /\ Fresh[1].previous_block_hash \in DOMAIN last.before.chain
    /\ Fresh[1].previous_block_hash # last.before.latest_block.block_hash

\* the last call was merge_blocks of blocks the first new one of which extends the tip
ExtendingMerge ==
    /\ last.op = "merge_blocks"
    /\ Fresh # <<>>
    /\ Fresh[1].previous_block_hash = last.before.latest_block.block_hash

\* the local blocks after the fork point, oldest first (the losing fork tail)
Losing ==
    LET before == Listing(last.before)
    IN  SubSeq(before, Position(before, Fresh[1].previous_block_hash) + 1, Len(before))

\* the blocks of a file in a listing that say the file has several chunks
MultiChunk(blocks, file_hash) ==
    SelectSeq(blocks, LAMBDA b : b.file_hash = file_hash /\ b.index_all > 1)

\* the multi-chunk blocks of every file in a listing agree on index_all
UniformIndexAll(blocks) ==
    \A h \in FileHashes :
        LET multi == MultiChunk(blocks, h)
        IN  \A i \in 1..Len(multi) : multi[i].index_all = multi[1].index_all

\* every multi-chunk file has in a listing a number of blocks (duplicates
\* counted) that is a multiple of its index_all
FileCountsOk(blocks) ==
    \A h \in FileHashes :
        LET multi == MultiChunk(blocks, h)
        IN  multi # <<>> => Len(multi) % multi[1].index_all = 0

\* verify_integrity() returns, and for files with one index_all each it returns
\* true exactly when the block counts on the chain are multiples of index_all
VerifiesByCount(self) ==
    LET r == verify_integrity(self)
        blocks == Listing(self)
    IN  /\ r.raised = "None"
        /\ UniformIndexAll(blocks) => (r.ret <=> FileCountsOk(blocks))

\* what C5 says of a merge with a conflict, but for verify_integrity
ConflictMergeEffect ==
    LET self == chains[last.c]
        before == Listing(last.before)
        fork == Position(before, Fresh[1].previous_block_hash)
        again == SubSeq(last.ret, Len(Fresh) + 1, Len(last.ret))
    IN  /\ last.raised = "None"
        \* (1) the foreign blocks are inserted as they came
        /\ \A i \in 1..Len(Fresh) : get_block_by_hash(self, Fresh[i].block_hash) = <<Fresh[i]>>
        \* (2) the losing blocks are removed
        /\ \A i \in 1..Len(Losing) : Losing[i].block_hash \notin DOMAIN self.chain
        \* (3) and inserted again in their order on top of the newest foreign block
        /\ Payloads(again) = Payloads(Losing)
        /\ LinkedFrom(again, Fresh[Len(Fresh)].block_hash)
        \* (4) the result: the new foreign blocks, then the losing blocks
        /\ SubSeq(last.ret, 1, Len(Fresh)) = Fresh
        /\ Len(last.ret) = Len(Fresh) + Len(Losing)
        \* afterwards
        /\ chain(self).raised = "None"
        /\ Listing(self) = SubSeq(before, 1, fork) \o last.ret
        /\ DOMAIN self.chain = Hashes(Listing(self))
        /\ self.latest_block = last.ret[Len(last.ret)]

ExtendingMergeEffect ==
    LET self == chains[last.c]
    IN  /\ last.raised = "None"
        /\ last.ret = Fresh
        /\ self.latest_block = Fresh[Len(Fresh)]
        /\ \A h \in DOMAIN last.before.chain :
               h \in DOMAIN self.chain /\ self.chain[h] = last.before.chain[h]
        /\ chain(self).raised = "None"
        /\ Listing(self) = Listing(last.before) \o Fresh
        /\ DOMAIN self.chain = Hashes(Listing(self))

StoredPayloads(self) == {Payload(b) : b \in StoredBlocks(self)}

\* contains_file returns true
Complete(self, file_hash) ==
    contains_file(self, file_hash).raised = "None" /\ contains_file(self, file_hash).ret

\* C7: after merge_blocks every payload stored before the call is still stored,
\* and every file that was complete before the call is still complete.
C7_MergePreserves ==
    last.op = "merge_blocks" =>
        /\ StoredPayloads(last.before) \subseteq StoredPayloads(chains[last.c])
        /\ \A h \in FileHashes : Complete(last.before, h) => Complete(chains[last.c], h)

\* C8: merge_blocks([]) and merge_blocks of blocks that are all present return
\* the empty list, leave chain and tip unchanged and do not fail.
C8_MergeNothingNew ==
    (last.op = "merge_blocks" /\ Fresh = <<>>) =>
        /\ last.raised = "None"
        /\ last.ret = <<>>
        /\ chains[last.c] = last.before

----------------------------------------------------------------------------
(* C9, C10: verify_integrity *)

WalkMissesBlock(self) == chain(self).raised = "KeyError"

\* the walk from the tip ends at a block that is not the genesis block
WalkEndsElsewhere(self) ==
    chain(self).raised = "None" /\ Listing(self)[1].block_hash # INITIAL_BLOCK.block_hash

\* a file met on the walk has fewer blocks on the chain than its index_all
FileLacksBlocks(self) ==
    \E i \in 1..Len(Listing(self)) :
        LET b == Listing(self)[i]
        IN  Len(SelectSeq(Listing(self), LAMBDA o : o.file_hash = b.file_hash)) < b.index_all

\* a file met on the walk has no block on the chain for one of its indexes
FileLacksIndex(self) ==
    \E i \in 1..Len(Listing(self)) :
        LET b == Listing(self)[i]
        IN  \E k \in 0..(b.index_all - 1) :
                \A j \in 1..Len(Listing(self)) :
                    ~(Listing(self)[j].file_hash = b.file_hash /\ Listing(self)[j].index = k)

\* all blocks of a file on the chain carry the same index_all
OneIndexAllPerFile(self) ==
    \A i, j \in 1..Len(Listing(self)) :
        Listing(self)[i].file_hash = Listing(self)[j].file_hash
            => Listing(self)[i].index_all = Listing(self)[j].index_all

\* C10: verify_integrity() is false if and only if the walk from the tip misses
\* a block, or ends at a block other than genesis, or a file met on the walk has
\* fewer blocks on the chain than its index_all; a chain with a complete
\* multi-chunk file and duplicates of its blocks verifies true. (Read in the
\* claim's favour: for chains whose files have one index_all each, and with a
\* file that lacks an index counted as one that has fewer blocks when
\* verify_integrity() is false.)
C10_VerifyFalseIff ==
    \A c \in Chains :
        LET self == chains[c]
        IN  OneIndexAllPerFile(self) =>
              /\ ~verify_integrity(self).ret
                    => \/ WalkMissesBlock(self)
                       \/ WalkEndsElsewhere(self)
                       \/ FileLacksBlocks(self)
                       \/ FileLacksIndex(self)
              /\ (WalkMissesBlock(self) \/ WalkEndsElsewhere(self) \/ FileLacksBlocks(self))
                    => ~verify_integrity(self).ret

----------------------------------------------------------------------------
(* C11: duplicate inserts *)

\* the last call was insert_block of a payload that a block of the chain held
DuplicateInsert ==
    /\ last.op = "insert_block"
    /\ \E old \in StoredBlocks(last.before) : Payload(old) = Payload(last.arg)

\* what a read operation answers: the exception it raises and the value it returns
Answer(r) == <<r.raised, r.ret>>

\* C11: an insert of a payload that a block of the chain already holds succeeds,
\* makes a new chain entry with a block hash of its own in the content-hash
\* bucket of the old one, and leaves the answers of contains_file(file_hash),
\* get_file_blocks(file_hash) and verify_integrity() as they were.
C11_DuplicateInsertTolerated ==
    DuplicateInsert =>
        LET self == chains[last.c]
            b == last.ret
        IN  /\ last.raised = "None"
            /\ b.block_hash \notin DOMAIN last.before.chain
            /\ get_block_by_hash(self, b.block_hash) = <<b>>
            /\ \A old \in StoredBlocks(last.before) :
                   Payload(old) = Payload(b) =>
                       /\ old.block_hash # b.block_hash
                       /\ files_listed(self.files, b.file_hash, b.content_hash, old.block_hash)
                       /\ files_listed(self.files, b.file_hash, b.content_hash, b.block_hash)
            /\ RecordedContents(self, b.file_hash) = RecordedContents(last.before, b.file_hash)
            /\ Answer(contains_file(self, b.file_hash))
                   = Answer(contains_file(last.before, b.file_hash))
            /\ Answer(get_file_blocks(self, b.file_hash))
                   = Answer(get_file_blocks(last.before, b.file_hash))
            /\ Answer(verify_integrity(self)) = Answer(verify_integrity(last.before))

----------------------------------------------------------------------------
(* C12: verify_blocks_integrity, asked about lists of blocks in any order *)

\* the blocks inserted into the chains whose blocks make up the lists
BuiltInputs == {Block(<<1>>, 1, <<7>>, 0), Block(<<1>>, 2, <<7>>, 0)}

\* the blocks a list is made of: the blocks of all chains and a block that was
\* never linked
Candidates ==
    UNION {StoredBlocks(chains[c]) : c \in Chains} \cup {Block(<<1>>, 1, <<7>>, 0)}

\* the lists of at most n blocks
RECURSIVE Lists(_)
Lists(n) ==
    IF n = 0 THEN {<<>>}
    ELSE Lists(n - 1) \cup {Append(l, b) : l \in {k \in Lists(n - 1) : Len(k) = n - 1},
                                           b \in Candidates}

\* a node asks its chain about a list of blocks that came off the wire
\* (server.py:149,165): Blockchain.verify_blocks_integrity(blocks)
VerifyBlocks(c, blocks) ==
    /\ last' = [op |-> "verify_blocks_integrity", c |-> c, arg |-> blocks,
                raised |-> "None", ret |-> verify_blocks_integrity(chains[c], blocks),
                before |-> chains[c]]
    /\ UNCHANGED <<chains, calls>>
    /\ UNCHANGED server

\* chains built by inserts and asked about lists of blocks. An answer leaves
\* the chains as they are, so two questions in a row are not modelled
NextVerify ==
    \/ \E c \in Chains, new_block \in BuiltInputs :
         calls < MaxBuilt /\ InsertBlock(c, new_block)
    \/ /\ last.op # "verify_blocks_integrity"
       /\ \E c \in Chains, blocks \in Lists(MaxBuilt) : VerifyBlocks(c, blocks)

SpecVerify == Init /\ [][NextVerify]_vars

\* a link inside the list is broken
BrokenLink(blocks) ==
    \E i \in 2..Len(blocks) : blocks[i].previous_block_hash # blocks[i - 1].block_hash

\* C12: verify_blocks_integrity(blocks) is false when a link inside the list is
\* broken (also when the first block links to a block of the chain), otherwise
\* true when the first block's predecessor is any block of the chain, and None
\* when it is not or the list is empty; it does not change the chain.
C12_VerifyBlocksThreeValued ==
    last.op = "verify_blocks_integrity" =>
        LET blocks == last.arg
            self == last.before
        IN  /\ last.ret = (IF BrokenLink(blocks) THEN "False"
                           ELSE IF blocks # <<>> /\ blocks[1].previous_block_hash \in DOMAIN self.chain
                           THEN "True" ELSE "None")
            /\ chains[last.c] = self

\* a list with a broken link whose first block links to a block of the chain
\* that is not its tip: the answer is false
C12_Witness ==
    /\ last.op = "verify_blocks_integrity"
    /\ Len(last.arg) >= 2
    /\ BrokenLink(last.arg)
    /\ last.arg[1].previous_block_hash \in DOMAIN last.before.chain
    /\ last.arg[1].previous_block_hash # last.before.latest_block.block_hash
    /\ last.ret = "False"

----------------------------------------------------------------------------
(* C13: reachability *)

\* C13: in every chain the walk from the tip along previous_block_hash ends at
\* the genesis block, whose previous_block_hash is the empty byte string, meets
\* every stored block, and has as many blocks as len reports.
C13_ChainReachable ==
    \A c \in Chains :
        LET self == chains[c]
            walk == chain(self)
        IN  /\ walk.raised = "None"
            /\ walk.ret[Len(walk.ret)] = INITIAL_BLOCK
            /\ INITIAL_BLOCK.previous_block_hash = bytes(0)
            /\ get_block_by_hash(self, INITIAL_BLOCK.block_hash) = <<INITIAL_BLOCK>>
            /\ StoredBlocks(self) = {walk.ret[i] : i \in 1..Len(walk.ret)}
            /\ len(self) = Len(walk.ret)

\* a chain after a merge with a conflict that removed and inserted again two blocks
C13_Witness ==
    /\ ConflictMerge
    /\ last.raised = "None"
    /\ Len(Losing) >= 2
    /\ len(chains[last.c]) >= 4

----------------------------------------------------------------------------
(* C14: one index_all per file *)

\* C14: in every chain all stored blocks of a file carry the same index_all,
\* and it is the index_all recorded for the file in the files index. (In the
\* claim's favour a file without a recorded index_all, as the file of the
\* genesis block, is compared with its blocks only.)
C14_OneIndexAllPerFile ==
    \A c \in Chains :
        LET self == chains[c]
        IN  \A b \in StoredBlocks(self) :
                /\ \A o \in StoredBlocks(self) :
                       o.file_hash = b.file_hash => o.index_all = b.index_all
                /\ b.file_hash \in DOMAIN self.files
                /\ self.files[b.file_hash].index_all \notin {KeyAbsent, EmptyList}
                       => self.files[b.file_hash].index_all = b.index_all

----------------------------------------------------------------------------
(* C15: immutability of linked blocks *)

\* The model holds blocks by value under their block hash. A block object of
\* the code keeps all its fields over a call exactly when the chain still holds,
\* under the hash it had, a block with the fields it had; the objects that
\* merge_blocks removes and passes to insert_block again (chain.py:318-331) are
\* the blocks of Losing, returned after the new foreign blocks.
Unchanged(h) ==
    /\ h \in DOMAIN chains[last.c].chain
    /\ chains[last.c].chain[h] = last.before.chain[h]

\* the original C15: under insert_block and merge_blocks no linked block of the
\* chain has a field changed
C15_BlocksImmutable ==
    last.op \in {"insert_block", "merge_blocks"} =>
        \A h \in DOMAIN last.before.chain : Unchanged(h)

\* the block of the losing fork tail at position i was linked again: payload and
\* content hash as before, previous_block_hash and block_hash new
Relinked(i) ==
    /\ Len(last.ret) = Len(Fresh) + Len(Losing)
    /\ LET old == Losing[i]
           again == last.ret[Len(Fresh) + i]
       IN  /\ Payload(again) = Payload(old)
           /\ again.content_hash = old.content_hash
           /\ again.previous_block_hash # old.previous_block_hash
           /\ again.block_hash # old.block_hash
           /\ old.block_hash \notin DOMAIN chains[last.c].chain
           /\ get_block_by_hash(chains[last.c], again.block_hash) = <<again>>

\* C15 (amended): insert_block of a new block and merge_blocks change no field
\* of a linked block that stays on the chain; merge_blocks with a conflict links
\* the blocks of the losing fork tail again, which changes their
\* previous_block_hash and block_hash and no other field.
C15_BlocksImmutableButLosing ==
    last.op \in {"insert_block", "merge_blocks"} =>
        \A h \in DOMAIN last.before.chain :
            IF ConflictMerge /\ h \in Hashes(Losing)
            THEN Relinked(Position(Losing, h))
            ELSE Unchanged(h)

\* a merge with a conflict after which the genesis block is as it was and two
\* blocks of the losing fork tail are linked again
C15_Witness ==
    /\ ConflictMerge
    /\ Len(Losing) >= 2
    /\ Unchanged(INITIAL_BLOCK.block_hash)
    /\ Relinked(1)
    /\ Relinked(2)

----------------------------------------------------------------------------
(* The servers: one FilechainServer per chain, each with its chain lock and  *)
(* one handler thread per accepted connection (server.py:52-220, 270-274)     *)

\* requests the clients send to the nodes
MaxRequests == 2

\* the batches the clients send with INSERT_BLOCKS, all blocks of a file in
\* one batch (client.py:54-66): the file F split into one chunk and into two
Batches ==
    { <<Block(<<1>>, 1, <<7>>, 0)>>,
      <<Block(<<1>>, 2, <<7>>, 0), Block(<<1>>, 2, <<7>>, 1)>> }

\* __known_server_addresses of node n (server.py:31); in Init the nodes have
\* registered with each other (server.py:122, 134, 247-251)
known_server_addresses(n) == known[n]

\* a handler thread at the start of its command; blocks, i, chain_len,
\* validity, added and conflicted are its local variables, holds tells whether
\* it is inside "with self.__blockchain_lock"
Handler(id, node, cmd, blocks, chain_len, peer) ==
    [id |-> id, node |-> node, cmd |-> cmd, pc |-> "lock", holds |-> FALSE,
     blocks |-> blocks, i |-> 1, chain_len |-> chain_len, peer |-> peer,
     validity |-> "unset", added |-> <<>>, conflicted |-> <<>>]

\* Lock.acquire made to succeed whether or not the lock is locked
acquire_unguarded(n) == TRUE

\* Lock.acquire of "with self.__blockchain_lock" (server.py:79, 144): it goes
\* on only when the lock is unlocked
acquire(n) == lock[n] = FALSE

\* the threads with t replaced by its next state u
step(t, u) == (threads \ {t}) \cup {u}

\* the thread t has left its handler
exit(t) == threads \ {t}

\* the exception leaves the with block, which unlocks the lock, and ends the
\* thread (server.py:79, 144)
Raise(t, self1, event) ==
    /\ chains' = [chains EXCEPT ![t.node] = self1]
    /\ lock' = [lock EXCEPT ![t.node] = FALSE]
    /\ threads' = exit(t)
    /\ last' = event
    /\ UNCHANGED <<calls, net, acked, known>>

\* what a handler of NEW_BLOCKS_AVAILABLE came to
Outcome(t, outcome, raised) ==
    [op |-> "new_blocks_available", c |-> t.node, arg |-> t.blocks,
     validity |-> t.validity, outcome |-> outcome, raised |-> raised]

\* a client connects to node n and sends INSERT_BLOCKS and a batch
\* (server.py:67-75)
StartInsert(n, blocks) ==
    /\ calls < MaxRequests
    /\ threads' = threads \cup {Handler(calls + 1, n, "insert_blocks", blocks, 0, n)}
    /\ calls' = calls + 1
    /\ UNCHANGED <<chains, last, lock, net, acked, known>>

\* with self.__blockchain_lock (server.py:79, 144)
Acquire(t) ==
    /\ t.pc = "lock"
    /\ acquire(t.node)
    /\ lock' = [lock EXCEPT ![t.node] = TRUE]
    /\ threads' = step(t, [t EXCEPT !.holds = TRUE,
                                    !.pc = IF t.cmd = "insert_blocks" THEN "insert"
                                           ELSE "decide"])
    /\ UNCHANGED <<chains, last, calls, net, acked, known>>

\* a handler that answers no exception
except_nothing(raised) == "none"

\* what the client is sent when the with block raises: ERROR and the exception
\* for a FileBlockSplitChangedException (server.py:88-89), nothing for another
\* exception, which the handler does not catch
except_reply(raised) ==
    IF raised = "FileBlockSplitChangedException" THEN "ERROR" ELSE "none"

\* one turn of "for block in blocks: insert_block(block)" (server.py:80-81); the
\* list keeps the block object, which insert_block links. A
\* FileBlockSplitChangedException is answered with ERROR (server.py:88-89), any
\* other exception ends the thread
InsertTurn(t) ==
    /\ t.pc = "insert"
    /\ t.i <= Len(t.blocks)
    /\ LET r == insert_block(chains[t.node], t.blocks[t.i])
       IN  IF r.raised = "None"
           THEN /\ chains' = [chains EXCEPT ![t.node] = r.self]
                /\ threads' = step(t, [t EXCEPT !.blocks[t.i] = r.ret, !.i = t.i + 1])
                /\ UNCHANGED <<last, calls, lock, net, acked, known>>
           ELSE Raise(t, r.self, [op |-> "insert_blocks", c |-> t.node, arg |-> t.blocks,
                                  raised |-> r.raised, reply |-> except_reply(r.raised)])

\* a handler that goes on to the statements after the with block as if it were
\* still inside it
with_stay(t) == t

\* the handler leaves "with self.__blockchain_lock" (server.py:79-83)
with_exit(t) == [t EXCEPT !.holds = FALSE]

\* blockchain_len = self.__blockchain.len and the end of the with block
\* (server.py:83)
InsertEnd(t) ==
    /\ t.pc = "insert"
    /\ t.i > Len(t.blocks)
    /\ lock' = [lock EXCEPT ![t.node] = FALSE]
    /\ threads' = step(t, [with_exit(t) EXCEPT !.pc = "ok",
                                               !.chain_len = len(chains[t.node])])
    /\ UNCHANGED <<chains, last, calls, net, acked, known>>

\* sock.send(OK) (server.py:85): the client has its batch acknowledged
SendOk(t) ==
    /\ t.pc = "ok"
    /\ acked' = [acked EXCEPT ![t.node] = @ \cup {Payload(t.blocks[k]) : k \in 1..Len(t.blocks)}]
    /\ threads' = step(t, [t EXCEPT !.pc = "broadcast"])
    /\ last' = [op |-> "insert_blocks", c |-> t.node, arg |-> t.blocks, raised |-> "None"]
    /\ UNCHANGED <<chains, calls, lock, net, known>>

\* the announcements __broadcast_new_blocks sends (server.py:202-220)
broadcast_new_blocks(n, new_chain_len, new_blocks) ==
    { [to |-> addr, from |-> n, chain_len |-> new_chain_len, blocks |-> new_blocks] :
        addr \in known_server_addresses(n) }

\* the sets of peers a broadcast may get through to before it ends: the loop
\* takes the addresses of the set in some order, and connect or the check of
\* the response raises at a peer that is down or answers with another tag
\* (server.py:204-211)
dial(n) == SUBSET known_server_addresses(n)

\* the record of a broadcast that a peer made raise: the peers reached before,
\* the peer that failed and the exception that left __broadcast_new_blocks
BroadcastRaised(t, reached, failed, raised) ==
    [op |-> "broadcast_new_blocks", c |-> t.node, arg |-> t.blocks, cmd |-> t.cmd,
     reached |-> reached, failed |-> failed, raised |-> raised, before |-> chains[t.node]]

\* the announcements of a broadcast that reaches the peers of reached, and its
\* record: done when all peers were reached, the exception otherwise
Announce(t, reached, done) ==
    /\ net' = net \cup {m \in broadcast_new_blocks(t.node, t.chain_len, t.blocks) :
                            m.to \in reached}
    /\ IF reached = known_server_addresses(t.node)
       THEN last' = done
       ELSE \E failed \in known_server_addresses(t.node) \ reached :
              \E raised \in {"ConnectionRefusedError", "RuntimeError"} :
                last' = BroadcastRaised(t, reached, failed, raised)

\* self.__broadcast_new_blocks(blockchain_len, blocks) after an insert
\* (server.py:87), then the thread ends: at the end of the handler or with the
\* exception of the broadcast, which the handler does not catch (server.py:88)
Broadcast(t) ==
    /\ t.pc = "broadcast"
    /\ \E reached \in dial(t.node) : Announce(t, reached, last)
    /\ threads' = exit(t)
    /\ UNCHANGED <<chains, calls, lock, acked, known>>

\* an add that leaves the set as it was
known_add_nothing(n, server_addr) == known

\* self.__known_server_addresses.add(server_addr) (server.py:122, 134)
known_add(n, server_addr) == [known EXCEPT ![n] = @ \cup {server_addr}]

\* a node accepts a connection that brings NEW_BLOCKS_AVAILABLE, the sender's
\* address, its chain length and the blocks (server.py:130-140)
Receive(m) ==
    /\ m \in net
    /\ net' = net \ {m}
    /\ threads' = threads \cup {Handler(0, m.to, "new_blocks_available", m.blocks,
                                        m.chain_len, m.from)}
    /\ known' = known_add(m.to, m.from)
    /\ UNCHANGED <<chains, last, calls, lock, acked>>

\* the comparison of the lengths and the first verify_blocks_integrity
\* (server.py:147-149, 174-186)
Decide(t) ==
    /\ t.pc = "decide"
    /\ LET self == chains[t.node]
           validity == verify_blocks_integrity(self, t.blocks)
       IN  IF t.chain_len > len(self)
           THEN IF validity = "False"
                THEN /\ lock' = [lock EXCEPT ![t.node] = FALSE]
                     /\ threads' = exit(t)
                     /\ last' = Outcome([t EXCEPT !.validity = validity], "ignored", "None")
                ELSE /\ threads' = step(t, [t EXCEPT !.validity = validity,
                                                     !.pc = IF validity = "None" THEN "pull"
                                                            ELSE "merge"])
                     /\ UNCHANGED <<lock, last>>
           ELSE IF t.chain_len < len(self)
           THEN /\ threads' = step(t, [t EXCEPT !.blocks = <<self.latest_block>>,
                                                !.chain_len = len(self),
                                                !.pc = "notify"])
                /\ UNCHANGED <<lock, last>>
           ELSE /\ lock' = [lock EXCEPT ![t.node] = FALSE]
                /\ threads' = exit(t)
                /\ last' = Outcome(t, "equal", "None")
    /\ UNCHANGED <<chains, calls, net, acked, known>>

\* the first turn of the pull loop (server.py:154-159): the thread dials
\* sock.addr, the address the announcement's connection came from, and sends
\* GET_BLOCK; the connect is refused, or new_blocks[0].prev_block_hash, an
\* attribute that Block does not have (block.py:107-129), raises
Pull(t) ==
    /\ t.pc = "pull"
    /\ \E raised \in {"ConnectionRefusedError", "AttributeError"} :
         Raise(t, chains[t.node], Outcome(t, "raised", raised))

\* merge_blocks up to the removal of the conflicted blocks (chain.py:285-326);
\* ret is [added_blocks, conflicted_blocks, done], done when merge_blocks
\* returns without a conflict
merge_until_removed(self, new_blocks) ==
    LET first == merge_add(self, new_blocks, Len(new_blocks), <<>>, <<>>)
        self1 == first.self
        added_blocks == added_order(first.ret.added_blocks)
        starting == first.ret.starting_conflicted_block
        Ret(conflicted_blocks, done) ==
            [added_blocks |-> added_blocks, conflicted_blocks |-> conflicted_blocks,
             done |-> done]
    IN  IF starting = <<>> THEN Result(self1, "AttributeError", Ret(<<>>, TRUE))
        ELSE IF starting[1].block_hash = self1.latest_block.block_hash
        THEN Result(IF added_blocks # <<>>
                    THEN [self1 EXCEPT !.latest_block = added_blocks[Len(added_blocks)]]
                    ELSE self1,
                    "None", Ret(<<>>, TRUE))
        ELSE IF added_blocks = <<>> THEN Result(self1, "IndexError", Ret(<<>>, TRUE))
        ELSE
          LET cur_block == self1.latest_block
              self2 == [self1 EXCEPT !.latest_block = added_blocks[Len(added_blocks)]]
              removed == merge_remove(self2, cur_block, starting[1], <<>>)
          IN  Result(removed.self, removed.raised,
                     Ret(conflicted_order(removed.ret), FALSE))

\* merge_blocks(new_blocks) (server.py:175) as far as the removal of the
\* conflicted blocks
MergeRemove(t) ==
    /\ t.pc = "merge"
    /\ LET r == merge_until_removed(chains[t.node], t.blocks)
       IN  IF r.raised # "None"
           THEN Raise(t, r.self, Outcome(t, "raised", r.raised))
           ELSE /\ chains' = [chains EXCEPT ![t.node] = r.self]
                /\ threads' = step(t,
                       IF r.ret.done
                       THEN [t EXCEPT !.blocks = r.ret.added_blocks,
                                      !.chain_len = len(r.self),
                                      !.pc = "broadcast_merged"]
                       ELSE [t EXCEPT !.added = r.ret.added_blocks,
                                      !.conflicted = r.ret.conflicted_blocks,
                                      !.pc = "reinsert"])
                /\ UNCHANGED <<last, calls, lock, net, acked, known>>

\* the block objects of a batch are the objects the chain holds: when the merge
\* links a conflicted block anew, the list of the thread that inserted it shows
\* the block as linked anew
relinked(blocks, conflicted_blocks, reinserted) ==
    [k \in 1..Len(blocks) |->
        IF \E j \in 1..Len(conflicted_blocks) : conflicted_blocks[j] = blocks[k]
        THEN reinserted[CHOOSE j \in 1..Len(conflicted_blocks) : conflicted_blocks[j] = blocks[k]]
        ELSE blocks[k]]

\* merge_blocks, the re-insertion of the conflicted blocks and the return
\* (chain.py:328-333); added_blocks goes to the broadcast (server.py:177)
MergeReinsert(t) ==
    /\ t.pc = "reinsert"
    /\ LET r == merge_reinsert(chains[t.node], t.conflicted, 1, t.added)
           reinserted == SubSeq(r.ret, Len(t.added) + 1, Len(r.ret))
       IN  IF r.raised # "None"
           THEN Raise(t, r.self, Outcome(t, "raised", r.raised))
           ELSE /\ chains' = [chains EXCEPT ![t.node] = r.self]
                /\ threads' = { IF u = t
                                THEN [t EXCEPT !.blocks = r.ret, !.chain_len = len(r.self),
                                               !.pc = "broadcast_merged"]
                                ELSE IF u.node = t.node /\ u.pc \in {"ok", "broadcast"}
                                THEN [u EXCEPT !.blocks = relinked(u.blocks, t.conflicted,
                                                                   reinserted)]
                                ELSE u : u \in threads }
                /\ UNCHANGED <<last, calls, lock, net, acked, known>>

\* self.__broadcast_new_blocks inside the with block: after the merge
\* (server.py:177) and as the notice to a node with a shorter chain
\* (server.py:186); the with block ends after it
BroadcastLocked(t) ==
    /\ t.pc \in {"broadcast_merged", "notify"}
    /\ \E reached \in dial(t.node) :
         Announce(t, reached,
                  Outcome(t, IF t.pc = "notify" THEN "notified" ELSE "merged", "None"))
    /\ lock' = [lock EXCEPT ![t.node] = FALSE]
    /\ threads' = exit(t)
    /\ UNCHANGED <<chains, calls, acked, known>>

\* what the handlers of CONTAINS_FILE, GET_FILE, REGISTER_SERVER and GET_BLOCK
\* ask the chain (server.py:97, 106, 125, 191)
read(self, cmd, arg) ==
    IF cmd = "contains_file" THEN contains_file(self, arg)
    ELSE IF cmd = "get_file" THEN get_file_blocks(self, arg)
    ELSE IF cmd = "register_server" THEN chain(self)
    ELSE Result(self, "None", get_block_by_hash(self, arg))

\* the arguments the clients and the peers send with a reading command: the
\* file F, nothing, or the hash of a block of some node
ReadArgs(cmd) ==
    IF cmd \in {"contains_file", "get_file"} THEN {<<1>>}
    ELSE IF cmd = "register_server" THEN {<<>>}
    ELSE UNION {DOMAIN chains[m].chain : m \in Chains}

\* a connection brings CONTAINS_FILE, GET_FILE, REGISTER_SERVER or GET_BLOCK:
\* the handler asks the chain and answers (server.py:92-129, 187-193);
\* locked tells whether the handler has the chain lock, during where the
\* handlers stand that have it at that time
Read(n, cmd, arg) ==
    /\ calls < MaxRequests
    /\ LET r == read(chains[n], cmd, arg)
       IN  /\ chains' = [chains EXCEPT ![n] = r.self]
           /\ last' = [op |-> cmd, c |-> n, arg |-> arg, raised |-> r.raised,
                       ret |-> r.ret, locked |-> FALSE,
                       during |-> {t.pc : t \in {u \in threads : u.node = n /\ u.holds}},
                       before |-> chains[n]]
    /\ calls' = calls + 1
    /\ UNCHANGED <<lock, threads, net, acked, known>>

ReadCmds == {"contains_file", "get_file", "register_server", "get_block"}

NextServer ==
    \/ \E n \in Chains, blocks \in Batches : StartInsert(n, blocks)
    \/ \E t \in threads : Acquire(t)
    \/ \E t \in threads : InsertTurn(t)
    \/ \E t \in threads : InsertEnd(t)
    \/ \E t \in threads : SendOk(t)
    \/ \E t \in threads : Broadcast(t)
    \/ \E m \in net : Receive(m)
    \/ \E t \in threads : Decide(t)
    \/ \E t \in threads : Pull(t)
    \/ \E t \in threads : MergeRemove(t)
    \/ \E t \in threads : MergeReinsert(t)
    \/ \E t \in threads : BroadcastLocked(t)
    \/ \E n \in Chains, cmd \in ReadCmds : \E arg \in ReadArgs(cmd) : Read(n, cmd, arg)

SpecServer == Init /\ [][NextServer]_vars

----------------------------------------------------------------------------
(* C16 *)

\* node n holds every payload it acknowledged
HoldsAcked(n) == acked[n] \subseteq StoredPayloads(chains[n])

\* C16: once a node has answered a batch of INSERT_BLOCKS with OK, every payload
\* of the batch is in the node's chain in every later state, whatever is
\* inserted and merged afterwards
C16_AckedPayloadsStay == \A n \in Chains : HoldsAcked(n)

\* the same, in the states in which the node's chain lock is unlocked
AckedPayloadsStayUnlocked == \A n \in Chains : lock[n] = FALSE => HoldsAcked(n)

----------------------------------------------------------------------------
(* C17 *)

\* the blocks of its batch that the handler t has inserted so far, as linked
Applied(t) == SubSeq(t.blocks, 1, t.i - 1)

\* the newest k blocks of the chain, oldest first
Newest(self, k) ==
    LET blocks == Listing(self)
    IN  IF k > Len(blocks) THEN <<>> ELSE SubSeq(blocks, Len(blocks) - k + 1, Len(blocks))

\* C17: while a handler applies a batch of INSERT_BLOCKS, and at the moment it
\* has applied all of it, the blocks of the batch it has inserted are the newest
\* blocks of the node's chain, in the order of the batch: no block of another
\* batch or of a merge stands between or after them
C17_BatchConsecutive ==
    \A t \in threads :
        t.pc = "insert" => Newest(chains[t.node], t.i - 1) = Applied(t)

\* a handler has applied a batch of two blocks while another handler of the
\* node, with blocks for the same chain, waits for the lock
C17_Witness ==
    \E t \in threads :
        /\ t.pc = "insert" /\ Len(t.blocks) = 2 /\ t.i > Len(t.blocks)
        /\ \E u \in threads \ {t} : u.node = t.node /\ u.pc = "lock" /\ u.blocks # <<>>

----------------------------------------------------------------------------
(* C18 *)

\* the handlers that are about to dial a peer: for a broadcast of
\* NEW_BLOCKS_AVAILABLE after an insert, after a merge or as the notice to a
\* node with a shorter chain, or for a GET_BLOCK pull
Dialing == {t \in threads : t.pc \in {"broadcast", "broadcast_merged", "notify", "pull"}}

----------------------------------------------------------------------------
(* C19 *)

\* the last step was the handler of a command that reads the chain
ReadServed == last.op \in ReadCmds

\* C19: a handler that reads the chain holds the chain lock of its node, and so
\* it reads no chain that a batch or a merge of another handler is at work on
C19_ReadsUnderLock == ReadServed => last.locked /\ last.during = {}

\* a GET_FILE or GET_BLOCK is served from a chain whose merge has removed the
\* conflicted blocks and not inserted them again, and misses an acknowledged
\* block (it takes two batches and the read: three requests)
ReadMidMerge ==
    /\ last.op \in {"get_file", "get_block"}
    /\ last.during = {"reinsert"}
    /\ ~(acked[last.c] \subseteq StoredPayloads(last.before))
    /\ last.raised = "IndexError" \/ last.ret = <<>>

----------------------------------------------------------------------------
(* C20 *)

\* a handler of NEW_BLOCKS_AVAILABLE has ended whose first
\* verify_blocks_integrity returned None, so that it went into the pull loop
PullEnded == last.op = "new_blocks_available" /\ last.validity = "None"

\* C20: a handler that goes into the pull loop ends with the merge and the
\* broadcast of the blocks, or with the blocks ignored, and with its node's
\* lock unlocked by it
C20_PullEndsMergedOrIgnored ==
    PullEnded => last.outcome \in {"merged", "ignored"} /\ last.raised = "None"

----------------------------------------------------------------------------
(* C21 *)

\* the last step was a broadcast in which a peer could not be dialed or gave
\* another answer than OK
PeerFailed == last.op = "broadcast_new_blocks"

\* C21: when a peer fails in a broadcast, the broadcasting handler ends without
\* an exception, every other known peer has been sent the announcement, and
\* the chain of the node is as it was
C21_BroadcastSkipsBadPeer ==
    PeerFailed =>
        /\ last.raised = "None"
        /\ last.reached = known_server_addresses(last.c) \ {last.failed}
        /\ chains[last.c] = last.before

----------------------------------------------------------------------------
(* C31 *)

\* no handler is running and no announcement is on its way
Quiescent == threads = {} /\ net = {}

\* the last handler to end was one of NEW_BLOCKS_AVAILABLE that found the
\* announced length greater than its node's (only then the blocks are verified)
LongerAnnounced == last.op = "new_blocks_available" /\ last.validity # "unset"

\* C31: when the announcement of a longer chain was delivered and all handlers
\* and messages have come to their end, the receiver holds the payloads of the
\* announced blocks (which are blocks of the sender's chain)
C31_CatchUpAfterAnnouncement ==
    Quiescent /\ LongerAnnounced =>
        \A i \in 1..Len(last.arg) : Payload(last.arg[i]) \in StoredPayloads(chains[last.c])

\* the same for the announcements whose first block links to a block the
\* receiver has
CatchUpWhenLinked ==
    Quiescent /\ LongerAnnounced /\ last.validity = "True" =>
        \A i \in 1..Len(last.arg) : Payload(last.arg[i]) \in StoredPayloads(chains[last.c])

----------------------------------------------------------------------------
(* The servers with batches of two files, so that a node can apply a batch    *)
(* [X] and then a batch [Y, Z] and announce the second to a node that has     *)
(* not heard of the first                                                     *)

\* the file G in one block, and the file F in two
PullBatches ==
    { <<Block(<<2>>, 1, <<7>>, 0)>>,
      <<Block(<<1>>, 2, <<7>>, 0), Block(<<1>>, 2, <<7>>, 1)>> }

NextPull ==
    \/ \E n \in Chains, blocks \in PullBatches : StartInsert(n, blocks)
    \/ \E t \in threads : Acquire(t)
    \/ \E t \in threads : InsertTurn(t)
    \/ \E t \in threads : InsertEnd(t)
    \/ \E t \in threads : SendOk(t)
    \/ \E t \in threads : Broadcast(t)
    \/ \E m \in net : Receive(m)
    \/ \E t \in threads : Decide(t)
    \/ \E t \in threads : Pull(t)
    \/ \E t \in threads : MergeRemove(t)
    \/ \E t \in threads : MergeReinsert(t)
    \/ \E t \in threads : BroadcastLocked(t)

SpecPull == Init /\ [][NextPull]_vars

----------------------------------------------------------------------------
(* C32 *)

\* the handler of node q that went into the pull loop was announced [Y, Z] by
\* node p, whose chain is genesis, X, Y, Z
AnnouncedYZ(p, q) ==
    /\ PullEnded
    /\ last.c = q
    /\ p # q
    /\ Len(last.arg) = 2
    /\ chain(chains[p]).raised = "None"
    /\ Len(Listing(chains[p])) = 4
    /\ SubSeq(Listing(chains[p]), 3, 4) = last.arg

\* C32: a receiver that is announced [Y, Z] and lacks Y's predecessor X, the
\* successor of genesis, pulls X, verifies [X, Y, Z] as true and merges: its
\* handler ends with the merge broadcast and its chain is genesis, X, Y, Z
C32_PullOutcome ==
    \A p \in Chains, q \in Chains :
        AnnouncedYZ(p, q) =>
            /\ last.raised = "None"
            /\ last.outcome = "merged"
            /\ Listing(chains[q]) = Listing(chains[p])
            /\ chains[q].latest_block = last.arg[2]
            /\ lock[q] = FALSE

----------------------------------------------------------------------------
(* The servers as they are constructed, with no known address, and            *)
(* connections that bring NEW_BLOCKS_AVAILABLE with any length and any list   *)
(* of blocks: the handler takes what the socket delivers (server.py:130-140)  *)

\* FilechainServer.__init__ (server.py:31, 46-50): the state of Init, but for
\* the addresses, of which none is known yet
InitServers ==
    /\ chains = [c \in Chains |-> Blockchain]
    /\ last = [op |-> "none"]
    /\ calls = 0
    /\ lock = [n \in Chains |-> FALSE]
    /\ threads = {}
    /\ net = {}
    /\ acked = [n \in Chains |-> {}]
    /\ known = [n \in Chains |-> {}]

\* two blocks of some other chain: A1 follows genesis, A2 follows A1
A1 == set_previous_block_hash(Block(<<2>>, 1, <<7>>, 0), INITIAL_BLOCK.block_hash)
A2 == set_previous_block_hash(Block(<<2>>, 1, <<7>>, 0), A1.block_hash)

\* the lists a connection brings: linked ones, one in the wrong order and one
\* whose first block follows a block that is not sent
AnnouncedLists == {<<A1>>, <<A1, A2>>, <<A2, A1>>, <<A2>>}

\* the lengths a connection brings
AnnouncedLens == 1..3

\* a connection from the address p brings node n NEW_BLOCKS_AVAILABLE, a
\* length and a list of blocks (server.py:130-140)
Announcement(n, p, chain_len, new_blocks) ==
    /\ calls < MaxRequests
    /\ n # p
    /\ net' = net \cup {[to |-> n, from |-> p, chain_len |-> chain_len,
                         blocks |-> new_blocks]}
    /\ calls' = calls + 1
    /\ UNCHANGED <<chains, last, lock, threads, acked, known>>

NextAnnounce ==
    \/ \E n \in Chains, p \in Chains, chain_len \in AnnouncedLens :
         \E new_blocks \in AnnouncedLists : Announcement(n, p, chain_len, new_blocks)
    \/ \E m \in net : Receive(m)
    \/ \E t \in threads : Acquire(t)
    \/ \E t \in threads : Decide(t)
    \/ \E t \in threads : Pull(t)
    \/ \E t \in threads : MergeRemove(t)
    \/ \E t \in threads : BroadcastLocked(t)

SpecAnnounce == InitServers /\ [][NextAnnounce]_vars

----------------------------------------------------------------------------
(* C33 *)

\* this step ends a handler of NEW_BLOCKS_AVAILABLE that found the announced
\* length greater and no predecessor missing, and in whose broadcast, if it
\* came to one, no peer failed
LinkedEnds ==
    /\ last'.op = "new_blocks_available"
    /\ last.op = "new_blocks_available" => last' # last
    /\ last'.validity \in {"True", "False"}

\* what the step that ends such a handler does
LinkedOutcome ==
    LET n == last'.c
    IN  IF last'.validity = "False"
        THEN /\ last'.outcome = "ignored"
             /\ chains' = chains
             /\ net' = net
        ELSE /\ last'.outcome = "merged"
             /\ last'.raised = "None"
             /\ chains' = chains
             /\ net' = net \cup { [to |-> addr, from |-> n, chain_len |-> len(chains[n]),
                                   blocks |-> last'.arg] :
                                  addr \in known_server_addresses(n) }

\* C33: a handler of NEW_BLOCKS_AVAILABLE with a greater announced length and
\* no missing predecessor leaves chain and tip as they were and sends nothing
\* when verify_blocks_integrity is false; when it is true it merges and then
\* sends NEW_BLOCKS_AVAILABLE with its address, its new chain length and the
\* list merge_blocks returned to every known peer
C33_VerifiedThenMergedAndSent == [][LinkedEnds => LinkedOutcome]_vars

\* the same for the handlers whose merge_blocks returns
VerifiedThenMergedAndSentIfReturned ==
    [][LinkedEnds /\ last'.raised = "None" => LinkedOutcome]_vars

\* a handler ended that found the announced list not to be linked
IgnoredFalse ==
    last.op = "new_blocks_available" /\ last.validity = "False" /\ last.outcome = "ignored"

----------------------------------------------------------------------------
(* C34 *)

\* the announcements of node n with its length and its tip as the only block
TipAnnouncements(n) ==
    { [to |-> addr, from |-> n, chain_len |-> len(chains[n]),
       blocks |-> <<chains[n].latest_block>>] : addr \in known[n] }

\* the step in which handler t compares the lengths, the announced one being
\* not greater than the node's
DecidesNotGreater(t) ==
    /\ t.pc = "decide"
    /\ t \notin threads'
    /\ t.chain_len <= len(chains[t.node])

\* the step in which handler t, at the notice to the nodes with a shorter
\* chain, ends without a peer failing
NotifyEnds(t) ==
    /\ t.pc = "notify"
    /\ t \notin threads'
    /\ last'.op = "new_blocks_available"

\* C34: a handler of NEW_BLOCKS_AVAILABLE whose announced length is not greater
\* than its node's has added the sender's address to the known addresses and
\* leaves the chain as it is; with a smaller announced length it sends
\* NEW_BLOCKS_AVAILABLE with its own length and the list [tip] and ends, with an
\* equal length it sends nothing and ends, whatever the announced blocks are
C34_NotGreaterNotifies ==
    [][\A t \in threads :
         /\ DecidesNotGreater(t) =>
              /\ t.peer \in known[t.node]
              /\ chains' = chains
              /\ net' = net
              /\ IF t.chain_len = len(chains[t.node])
                 THEN /\ threads' = threads \ {t}
                      /\ lock'[t.node] = FALSE
                 ELSE threads' = (threads \ {t})
                                 \cup {[t EXCEPT !.pc = "notify",
                                                 !.chain_len = len(chains[t.node]),
                                                 !.blocks = <<chains[t.node].latest_block>>]}
         /\ NotifyEnds(t) =>
              /\ t.peer \in known[t.node]
              /\ chains' = chains
              /\ net' = net \cup TipAnnouncements(t.node)
              /\ threads' = threads \ {t}
              /\ lock'[t.node] = FALSE]_vars

\* a node has sent its tip to the sender of an announcement of a shorter chain,
\* whom it did not know before
C34_Witness ==
    /\ last.op = "new_blocks_available"
    /\ last.outcome = "notified"
    /\ Len(last.arg) = 1
    /\ last.arg[1] = chains[last.c].latest_block
    /\ len(chains[last.c]) > 1
    /\ \E m \in net : m.from = last.c /\ m.blocks = last.arg /\ m.to \in known[last.c]

----------------------------------------------------------------------------
(* The servers with batches that split one file in two ways, so that the      *)
(* second block of a batch can be the one insert_block refuses               *)

\* the file F in the chunks X, X and in the chunks X, Y
SplitBatches ==
    { <<Block(<<1>>, 2, <<7>>, 0), Block(<<1>>, 2, <<7>>, 1)>>,
      <<Block(<<1>>, 2, <<7>>, 0), Block(<<1>>, 2, <<8>>, 1)>> }

\* the node the clients send their batches to; the other node has the blocks
\* of this one only, so that no merge of it meets a conflict
BatchNode == 1

NextBatch ==
    \/ \E blocks \in SplitBatches : StartInsert(BatchNode, blocks)
    \/ \E t \in threads : Acquire(t)
    \/ \E t \in threads : InsertTurn(t)
    \/ \E t \in threads : InsertEnd(t)
    \/ \E t \in threads : SendOk(t)
    \/ \E t \in threads : Broadcast(t)
    \/ \E m \in net : Receive(m)
    \/ \E t \in threads : Decide(t)
    \/ \E t \in threads : Pull(t)
    \/ \E t \in threads : MergeRemove(t)
    \/ \E t \in threads : BroadcastLocked(t)

SpecBatch == Init /\ [][NextBatch]_vars

----------------------------------------------------------------------------
(* C35 *)

\* the step in which insert_block raises in the loop of handler t
InsertRaises(t) ==
    /\ t.pc = "insert"
    /\ t.holds
    /\ ~\E u \in threads' : u.id = t.id /\ u.node = t.node /\ u.cmd = t.cmd
    /\ last'.op = "insert_blocks"
    /\ last'.c = t.node
    /\ last'.arg = t.blocks
    /\ last'.raised = "FileBlockSplitChangedException"

\* C35: when insert_block raises FileBlockSplitChanged for the k-th block of a
\* batch, the handler answers ERROR, sends no NEW_BLOCKS_AVAILABLE and ends
\* with the lock unlocked; the k-th block and those after it are not inserted,
\* and the first k-1 blocks of the batch are the newest blocks of the chain
C35_FailingBatch ==
    [][\A t \in threads :
         InsertRaises(t) =>
             /\ last'.reply = "ERROR"
             /\ net' = net
             /\ threads' = threads \ {t}
             /\ lock'[t.node] = FALSE
             /\ acked' = acked
             /\ chains' = chains
             /\ \A k \in t.i..Len(t.blocks) : t.blocks[k].block_hash = None
             /\ Newest(chains'[t.node], t.i - 1) = Applied(t)]_vars

\* the second block of a batch was refused, and the first one is the tip
C35_Witness ==
    /\ last.op = "insert_blocks"
    /\ last.raised = "FileBlockSplitChangedException"
    /\ last.reply = "ERROR"
    /\ Len(last.arg) = 2
    /\ last.arg[1] = chains[last.c].latest_block
    /\ last.arg[2].block_hash = None
    /\ threads = {}
    /\ net = {}

----------------------------------------------------------------------------
(* C36 *)

\* C36: any two blocks of a chain with the same file_hash and the same
\* content_hash carry the same chunk and the same index
C36_BucketOneChunk ==
    \A c \in Chains :
        \A a \in StoredBlocks(chains[c]), b \in StoredBlocks(chains[c]) :
            (a.file_hash = b.file_hash /\ a.content_hash = b.content_hash)
                => (a.chunk = b.chunk /\ a.index = b.index)

----------------------------------------------------------------------------
(* The known addresses while a broadcast goes through them: the for loop of   *)
(* __broadcast_new_blocks taken one address at a time, beside handlers that   *)
(* add an address                                                             *)

\* the addresses of servers other than the nodes of Chains
PeerAddrs == {3, 4}

\* the batch a client sends
PeerBatches == {<<Block(<<1>>, 1, <<7>>, 0)>>}

\* the length a peer with a fresh chain announces
PeerLens == {1}

\* REGISTER_SERVER from the server at new_server_addr: the handler sends the
\* known addresses, adds the new one and sends the chain (server.py:115-129)
Register(n, new_server_addr) ==
    /\ calls < MaxRequests
    /\ known' = known_add(n, new_server_addr)
    /\ last' = [op |-> "register_server", c |-> n, arg |-> new_server_addr,
                raised |-> "None",
                ret |-> <<known_server_addresses(n), chain(chains[n]).ret>>]
    /\ calls' = calls + 1
    /\ UNCHANGED <<chains, lock, threads, net, acked>>

\* iter() of "for addr in self.__known_server_addresses" (server.py:204): the
\* set iterator notes the size of the set; returned are the addresses it has
\* given out
BroadcastIter(t) ==
    /\ t.pc \in {"broadcast", "notify"}
    /\ threads' = step(t, [t EXCEPT !.pc = "for"]
                          @@ [si_used |-> Cardinality(known_server_addresses(t.node)),
                              returned |-> {}, in |-> t.pc])
    /\ UNCHANGED <<chains, last, calls, lock, net, acked, known>>

\* the handler leaves __broadcast_new_blocks with or without an exception: the
\* thread ends, and a handler of NEW_BLOCKS_AVAILABLE leaves the with block
\* (server.py:87-91, 144, 186)
BroadcastLeave(t) ==
    /\ threads' = exit(t)
    /\ lock' = [lock EXCEPT ![t.node] = IF t.holds THEN FALSE ELSE @]

\* next() of the set iterator and one turn of the loop (server.py:204-220):
\* the iterator raises RuntimeError when the size of the set is no longer the
\* one it noted, ends the loop when it has given out every address, and gives
\* out another address otherwise, to which the turn sends the announcement
BroadcastNext(t) ==
    /\ t.pc = "for"
    /\ LET addresses == known_server_addresses(t.node)
       IN  IF t.si_used # Cardinality(addresses)
           THEN /\ BroadcastLeave(t)
                /\ last' = [op |-> "broadcast_new_blocks", c |-> t.node, arg |-> t.blocks,
                            cmd |-> t.cmd, reached |-> t.returned,
                            raised |-> "RuntimeError",
                            message |-> "Set changed size during iteration"]
                /\ UNCHANGED net
           ELSE IF t.returned = addresses
           THEN /\ BroadcastLeave(t)
                /\ last' = [op |-> "broadcast_new_blocks", c |-> t.node, arg |-> t.blocks,
                            cmd |-> t.cmd, reached |-> t.returned,
                            raised |-> "None", message |-> ""]
                /\ UNCHANGED net
           ELSE \E addr \in addresses \ t.returned :
                  /\ net' = net \cup {[to |-> addr, from |-> t.node,
                                       chain_len |-> t.chain_len, blocks |-> t.blocks]}
                  /\ threads' = step(t, [t EXCEPT !.returned = @ \cup {addr}])
                  /\ UNCHANGED <<lock, last>>
    /\ UNCHANGED <<chains, calls, acked, known>>

NextPeers ==
    \/ \E n \in Chains, blocks \in PeerBatches : StartInsert(n, blocks)
    \/ \E n \in Chains, new_server_addr \in PeerAddrs : Register(n, new_server_addr)
    \/ \E n \in Chains, p \in PeerAddrs, chain_len \in PeerLens :
         Announcement(n, p, chain_len, <<A1>>)
    \/ \E m \in net : m.to \in Chains /\ Receive(m)
    \/ \E t \in threads : Acquire(t)
    \/ \E t \in threads : InsertTurn(t)
    \/ \E t \in threads : InsertEnd(t)
    \/ \E t \in threads : SendOk(t)
    \/ \E t \in threads : Decide(t)
    \/ \E t \in threads : BroadcastIter(t)
    \/ \E t \in threads : BroadcastNext(t)

SpecPeers == InitServers /\ [][NextPeers]_vars

----------------------------------------------------------------------------
(* C37 *)

\* the handlers of node n that are in the loop of a broadcast
Iterating(n) == {t \in threads : t.node = n /\ t.pc = "for"}

\* C37: no address is added to the known addresses of a node while a handler
\* of the node is in the loop of a broadcast over them, and no broadcast ends
\* with the error of a set that changed during the iteration
C37_PeersSetGuarded ==
    /\ \A n \in Chains : \A t \in Iterating(n) :
           t.si_used = Cardinality(known_server_addresses(n))
    /\ ~(last.op = "broadcast_new_blocks" /\ last.raised = "RuntimeError")

----------------------------------------------------------------------------
(* Joining nodes: FilechainServer.start with register_node_addr            *)
(* (server.py:232-258) on top of the chains of Spec                         *)

\* the loop of Blockchain.__init__ over the blocks of chain (chain.py:61-66)
RECURSIVE init_loop(_, _, _)
init_loop(self, blocks, i) ==
    IF i > Len(blocks) THEN self
    ELSE LET block == blocks[i]
         IN  init_loop([self EXCEPT
                           !.chain = (block.block_hash :> block) @@ self.chain,
                           !.files = files_set_index_all(
                                         files_append(self.files, block.file_hash,
                                                      block.content_hash, block.block_hash),
                                         block.file_hash, block.index_all)],
                       blocks, i + 1)

\* Blockchain.__init__ with a chain (chain.py:59-66): Blockchain(blocks), for a
\* list that is not empty
BlockchainOf(blocks) ==
    init_loop([chain |-> <<>>, files |-> <<>>, latest_block |-> blocks[1]], blocks, 1)

\* a new node starts with the address of node d: it registers there, takes the
\* list that d's handler of REGISTER_SERVER sends, self.__blockchain.chain
\* (server.py:127), builds its chain of it and verifies it (server.py:253-258).
\* The record keeps d's chain, the list, the new node's chain and the
\* RuntimeError of a start that is given up
Start(d) ==
    /\ chain(chains[d]).raised = "None"
    /\ LET snapshot == chain(chains[d]).ret
           joined == BlockchainOf(snapshot)
           valid == verify_integrity(joined).ret
       IN  last' = [op |-> "start", c |-> d, arg |-> snapshot, ret |-> joined,
                    raised |-> IF valid THEN "None" ELSE "RuntimeError",
                    before |-> chains[d]]
    /\ UNCHANGED <<chains, calls>>
    /\ UNCHANGED server

NextJoin ==
    \/ \E c \in Chains, new_block \in Inputs : InsertBlock(c, new_block)
    \/ \E c \in Chains : \E d \in Chains \ {c} :
         \E new_blocks \in Segments(chains[d]) : MergeBlocks(c, d, new_blocks)
    \/ /\ last.op # "start"
       /\ \E d \in Chains : Start(d)

SpecJoin == Init /\ [][NextJoin]_vars

----------------------------------------------------------------------------
(* C22 *)

\* a new node has started with the address of a peer
Started == last.op = "start"

\* the files of the blocks that clients insert
ClientFiles == FileHashes \ {INITIAL_BLOCK.file_hash}

\* C22: a node that starts with the address of a peer gives up when
\* verify_integrity() of the chain it built is false, and otherwise serves a
\* chain with the blocks, the tip and the length of the peer's chain, which
\* answers contains_file as the peer's chain does for every file
C22_JoinedChainEqualsPeer ==
    Started =>
        \/ last.raised = "RuntimeError"
        \/ /\ StoredBlocks(last.ret) = StoredBlocks(last.before)
           /\ last.ret.latest_block = last.before.latest_block
           /\ len(last.ret) = len(last.before)
           /\ \A h \in ClientFiles :
                Answer(contains_file(last.ret, h)) = Answer(contains_file(last.before, h))

----------------------------------------------------------------------------
(* C23 *)

\* C23: the list that the chain property returns, which the handler of
\* REGISTER_SERVER sends to a starting node, holds all blocks of the chain from
\* the oldest to the newest: the genesis block first, the tip last
C23_ChainOldestFirst ==
    Started =>
        /\ Hashes(last.arg) = DOMAIN last.before.chain
        /\ last.arg[1] = INITIAL_BLOCK
        /\ last.arg[Len(last.arg)] = last.before.latest_block

----------------------------------------------------------------------------
(* The client (client.py) against one server at a time: send_file,          *)
(* check_file and get_file, each a connection of its own that the server    *)
(* handles to the end (server.py:67-114)                                     *)

\* the bytes a chunk holds (config/const.py), scaled down
CHUNK_SIZE == 2

\* the longest file, in bytes
MaxFileLen == 3

\* the files a client sends to the servers
MaxSends == 2

\* the files: every sequence of the bytes 0 and 7 up to the longest
Files == UNION {[1..n -> {0, 7}] : n \in 0..MaxFileLen}

\* hashlib.sha256().hexdigest() as bytes (client.py:166): the digest in
\* hexadecimal digits, none of which is a zero byte
hexdigest(s) == <<16>> \o sha256(s)

\* FilechainClient.__read_file (client.py:147-166): the file hash and the
\* chunks, each of CHUNK_SIZE bytes but the last, which has what is left
read_file(file) ==
    LET n == (Len(file) + CHUNK_SIZE - 1) \div CHUNK_SIZE
        upto(i) == IF i * CHUNK_SIZE < Len(file) THEN i * CHUNK_SIZE ELSE Len(file)
    IN  [file_hash |-> hexdigest(file),
         chunks |-> [i \in 1..n |-> SubSeq(file, (i - 1) * CHUNK_SIZE + 1, upto(i))]]

\* the blocks send_file makes of the chunks (client.py:60-62)
file_blocks(file) ==
    LET f == read_file(file)
    IN  [i \in 1..Len(f.chunks) |-> Block(f.file_hash, Len(f.chunks), f.chunks[i], i - 1)]

\* the handler of INSERT_BLOCKS from the lock to its end when no other
\* handler runs: the blocks inserted in turn up to the first exception
\* (server.py:79-81)
RECURSIVE insert_blocks(_, _, _)
insert_blocks(self, blocks, i) ==
    IF i > Len(blocks) THEN Result(self, "None", blocks)
    ELSE LET r == insert_block(self, blocks[i])
         IN  IF r.raised # "None" THEN Result(r.self, r.raised, blocks)
             ELSE insert_blocks(r.self, blocks, i + 1)

\* the chunks of the blocks one after the other, as get_file writes them
\* (client.py:138-141)
RECURSIVE written(_, _)
written(blocks, i) ==
    IF i > Len(blocks) THEN <<>> ELSE blocks[i].chunk \o written(blocks, i + 1)

\* what the client makes of the end of a connection: the server's answer, or a
\* RuntimeError for ERROR and for a connection that the handler's exception
\* broke (client.py:69-72, sock.py:56-57)
client_raised(raised) == IF raised = "None" THEN "None" ELSE "RuntimeError"

\* FilechainClient.send_file(file) to server c; an OK acknowledges the blocks
SendFile(c, file) ==
    /\ calls < MaxSends
    /\ LET r == insert_blocks(chains[c], file_blocks(file), 1)
       IN  /\ chains' = [chains EXCEPT ![c] = r.self]
           /\ acked' = [acked EXCEPT ![c] =
                           IF r.raised = "None"
                           THEN @ \cup {Payload(r.ret[k]) : k \in 1..Len(r.ret)}
                           ELSE @]
           /\ last' = [op |-> "send_file", c |-> c, arg |-> file,
                       raised |-> client_raised(r.raised), before |-> chains[c]]
    /\ calls' = calls + 1
    /\ UNCHANGED <<lock, threads, net, known>>

\* FilechainClient.check_file(file) at server c: the handler of CONTAINS_FILE
\* answers with contains_file(file_hash) (server.py:92-100)
CheckFile(c, file) ==
    /\ LET r == contains_file(chains[c], read_file(file).file_hash)
       IN  /\ chains' = [chains EXCEPT ![c] = r.self]
           /\ last' = [op |-> "check_file", c |-> c, arg |-> file,
                       raised |-> client_raised(r.raised), ret |-> r.ret,
                       before |-> chains[c]]
    /\ UNCHANGED <<calls, lock, threads, net, acked, known>>

\* FilechainClient.get_file(file_hash) at server c: the handler of GET_FILE
\* sends None for no blocks, and the blocks and END otherwise
\* (server.py:101-114); ret tells whether blocks came and what was written
GetFile(c, file) ==
    /\ LET r == get_file_blocks(chains[c], read_file(file).file_hash)
       IN  /\ chains' = [chains EXCEPT ![c] = r.self]
           /\ last' = [op |-> "get_file", c |-> c, arg |-> file,
                       raised |-> client_raised(r.raised),
                       ret |-> IF r.raised # "None" \/ r.ret = <<>>
                               THEN [found |-> FALSE, file |-> <<>>]
                               ELSE [found |-> TRUE, file |-> written(r.ret, 1)],
                       before |-> chains[c]]
    /\ UNCHANGED <<calls, lock, threads, net, acked, known>>

NextClient ==
    \/ \E c \in Chains, file \in Files : SendFile(c, file)
    \/ /\ last.op \notin {"check_file", "get_file"}
       /\ \E c \in Chains, file \in Files : CheckFile(c, file)
    \/ /\ last.op \notin {"check_file", "get_file"}
       /\ \E c \in Chains, file \in Files : GetFile(c, file)

SpecClient == Init /\ [][NextClient]_vars

----------------------------------------------------------------------------
(* C24 *)

\* server c has answered a send_file of the file with OK; the file has a chunk
Sent(c, file) ==
    /\ file # <<>>
    /\ {Payload(file_blocks(file)[k]) : k \in 1..Len(file_blocks(file))} \subseteq acked[c]

\* C24: for a file that a server has acknowledged, check_file gets the answer
\* true from that server and get_file gets blocks whose chunks, written one
\* after the other, are the file byte for byte
C24_ClientRoundTrip ==
    /\ last.op = "check_file" /\ Sent(last.c, last.arg)
           => last.raised = "None" /\ last.ret = TRUE
    /\ last.op = "get_file" /\ Sent(last.c, last.arg)
           => last.raised = "None" /\ last.ret.found /\ last.ret.file = last.arg

----------------------------------------------------------------------------
(* The transport (sock.py): one connection, FilechainSocket.send on one end  *)
(* and FilechainSocket.receive on the other. In this part net is the         *)
(* connection: the messages sent, the bytes under way, the receiver's        *)
(* __data_buffer, the buffer of the receive() that is running and the        *)
(* number of receive() calls that have returned                              *)

\* FilechainSocket.SOCK_DATA_END (sock.py:18), scaled down to two bytes
SOCK_DATA_END == <<60, 62>>

\* the bytes one recv takes at most (config/const.py), scaled down
SOCKET_BUFFER_SIZE == 2

\* the longest message, in bytes
MaxMsgLen == 2

\* the messages sent on the connection
MaxMsgs == 2

\* the messages: bytes objects made of a plain byte and the bytes of the
\* delimiter
Messages == UNION {[1..n -> {7, 60, 62}] : n \in 0..MaxMsgLen}

\* pickle.dumps of a bytes object (sock.py:39): an opcode, the length, the
\* bytes as they are, and the STOP opcode
pickle_dumps(data) == <<67, Len(data)>> \o data \o <<46>>

\* pickle.loads (sock.py:63): the bytes object, or an UnpicklingError for
\* bytes that are not a whole pickle
pickle_loads(s) ==
    IF Len(s) >= 3 /\ s[1] = 67 /\ s[2] = Len(s) - 3 /\ s[Len(s)] = 46
    THEN [raised |-> "None", ret |-> SubSeq(s, 3, Len(s) - 1)]
    ELSE [raised |-> "UnpicklingError", ret |-> <<>>]

\* bytes.find (sock.py:52, 59): the index, from 0, of the first place where
\* the pattern stands in the buffer, or -1
find(buffer, pattern) ==
    LET places == {i \in 0..(Len(buffer) - Len(pattern)) :
                      SubSeq(buffer, i + 1, i + Len(pattern)) = pattern}
    IN  IF places = {} THEN -1 ELSE CHOOSE i \in places : \A j \in places : i <= j

InitSock ==
    /\ chains = [c \in Chains |-> Blockchain]
    /\ last = [op |-> "none"]
    /\ calls = 0
    /\ lock = [n \in Chains |-> FALSE]
    /\ threads = {}
    /\ acked = [n \in Chains |-> {}]
    /\ known = [n \in Chains |-> {}]
    /\ net = [sent |-> <<>>, wire |-> <<>>, data_buffer |-> <<>>, buffer |-> <<>>,
              receiving |-> FALSE, returned |-> 0]

\* FilechainSocket.send(data) (sock.py:31-42): the pickle and the delimiter go
\* on the wire
Send(data) ==
    /\ Len(net.sent) < MaxMsgs
    /\ net' = [net EXCEPT !.sent = Append(@, data),
                          !.wire = @ \o pickle_dumps(data) \o SOCK_DATA_END]
    /\ UNCHANGED <<chains, last, calls, lock, threads, acked, known>>

\* FilechainSocket.receive starts: buffer = self.__data_buffer (sock.py:50)
ReceiveCall ==
    /\ ~net.receiving
    /\ net.returned < Len(net.sent)
    /\ net' = [net EXCEPT !.receiving = TRUE, !.buffer = net.data_buffer]
    /\ UNCHANGED <<chains, last, calls, lock, threads, acked, known>>

\* a turn of the loop (sock.py:53-59): no delimiter in the buffer, recv takes
\* some of the bytes under way, at most SOCKET_BUFFER_SIZE of them
Recv(k) ==
    /\ net.receiving
    /\ find(net.buffer, SOCK_DATA_END) = -1
    /\ k <= Len(net.wire)
    /\ net' = [net EXCEPT !.buffer = @ \o SubSeq(net.wire, 1, k),
                          !.wire = SubSeq(@, k + 1, Len(@))]
    /\ UNCHANGED <<chains, last, calls, lock, threads, acked, known>>

\* the end of receive (sock.py:61-63): what follows the delimiter is kept in
\* __data_buffer, what stands before it is unpickled and returned
ReceiveReturn ==
    /\ net.receiving
    /\ find(net.buffer, SOCK_DATA_END) # -1
    /\ LET end_pattern_idx == find(net.buffer, SOCK_DATA_END)
           r == pickle_loads(SubSeq(net.buffer, 1, end_pattern_idx))
       IN  /\ net' = [net EXCEPT !.receiving = FALSE, !.buffer = <<>>,
                                 !.data_buffer = SubSeq(net.buffer,
                                     end_pattern_idx + Len(SOCK_DATA_END) + 1,
                                     Len(net.buffer)),
                                 !.returned = @ + 1]
           /\ last' = [op |-> "receive", n |-> net.returned + 1,
                       raised |-> r.raised, ret |-> r.ret]
    /\ UNCHANGED <<chains, calls, lock, threads, acked, known>>

NextSock ==
    \/ \E data \in Messages : Send(data)
    \/ ReceiveCall
    \/ \E k \in 1..SOCKET_BUFFER_SIZE : Recv(k)
    \/ ReceiveReturn

SpecSock == InitSock /\ [][NextSock]_vars

----------------------------------------------------------------------------
(* C25 *)

\* C25: the n-th receive() on a connection returns the n-th message that was
\* sent on it, unchanged, whatever bytes the messages hold and however recv
\* cuts the bytes under way
C25_TransportRoundTrip ==
    last.op = "receive" =>
        /\ last.raised = "None"
        /\ last.n <= Len(net.sent)
        /\ last.ret = net.sent[last.n]

\* the same for messages that do not hold the delimiter
TransportRoundTripPlain ==
    (last.op = "receive" /\ \A i \in 1..Len(net.sent) : find(net.sent[i], SOCK_DATA_END) = -1)
        => /\ last.raised = "None"
           /\ last.n <= Len(net.sent)
           /\ last.ret = net.sent[last.n]

----------------------------------------------------------------------------
(* The chains fed with the blocks of one file only: the blocks of F with      *)
(* index 0 or 1, which come with every index_all and with the two chunks      *)
(* that collide at index 1 and 2                                              *)

IndexInputs == {b \in Inputs : b.file_hash = <<1>> /\ b.index <= 1}

NextIndex ==
    \/ \E c \in Chains, new_block \in IndexInputs : InsertBlock(c, new_block)
    \/ \E c \in Chains : \E d \in Chains \ {c} :
         \E new_blocks \in Segments(chains[d]) : MergeBlocks(c, d, new_blocks)

SpecIndex == Init /\ [][NextIndex]_vars

----------------------------------------------------------------------------
(* C26 *)

\* the hash of the fields a block has now
HashOfFields(b) ==
    sha256(b.file_hash \o bytes(b.index_all) \o b.chunk \o bytes(b.index)
           \o b.previous_block_hash)

\* C26: in every chain each block reachable from the tip, also one that a merge
\* linked anew, has as block_hash the hash of its fields and its
\* previous_block_hash; two blocks of a chain with the same content_hash and
\* the same previous_block_hash have the same block_hash; and each key of the
\* chain's dict is the block_hash of the block it maps to
C26_BlockHashOfFields ==
    \A c \in Chains :
        LET self == chains[c]
            blocks == chain(self).ret
        IN  /\ \A i \in 1..Len(blocks) : blocks[i].block_hash = HashOfFields(blocks[i])
            /\ \A h \in DOMAIN self.chain :
                   /\ self.chain[h].block_hash = h
                   /\ h = HashOfFields(self.chain[h])
            /\ \A h \in DOMAIN self.chain, g \in DOMAIN self.chain :
                   self.chain[h].content_hash = self.chain[g].content_hash
                   /\ self.chain[h].previous_block_hash = self.chain[g].previous_block_hash
                       => h = g

\* a merge with a conflict has linked a losing block anew, in a chain that
\* holds two blocks with the same content hash
C26_Witness ==
    /\ ConflictMerge /\ last.raised = "None" /\ Len(Losing) >= 1
    /\ \E a \in StoredBlocks(chains[last.c]), b \in StoredBlocks(chains[last.c]) :
           a # b /\ a.content_hash = b.content_hash

----------------------------------------------------------------------------
(* Blocks on their own: Block.__init__ with any arguments and the setter of  *)
(* previous_block_hash (block.py:23-55, 117-129)                             *)

\* the numbers given as index_all and index
MaxIndex == 3

\* Block.__init__ without previous_block_hash, its assertions included
\* (block.py:42, 45)
Block_init(file_hash, index_all, chunk, index) ==
    IF BlockArgsOk(index_all, index)
    THEN [raised |-> "None", ret |-> <<Block(file_hash, index_all, chunk, index)>>]
    ELSE [raised |-> "AssertionError", ret |-> <<>>]

\* Block(file_hash, index_all, chunk, index)
Construct(file_hash, index_all, chunk, index) ==
    /\ last' = [op |-> "Block", arg |-> <<file_hash, index_all, chunk, index>>,
                raised |-> Block_init(file_hash, index_all, chunk, index).raised,
                ret |-> Block_init(file_hash, index_all, chunk, index).ret]
    /\ UNCHANGED <<chains, calls>>
    /\ UNCHANGED server

\* block.previous_block_hash = block_hash, for the block just constructed
SetPrevious(block_hash) ==
    /\ last.op = "Block"
    /\ last.raised = "None"
    /\ last' = [op |-> "previous_block_hash", arg |-> block_hash, raised |-> "None",
                ret |-> <<set_previous_block_hash(last.ret[1], block_hash)>>,
                before |-> last.ret[1]]
    /\ UNCHANGED <<chains, calls>>
    /\ UNCHANGED server

NextBlock ==
    \/ \E file_hash \in FileHashes, index_all \in -1..MaxIndex, chunk \in {<<>>, <<7>>},
          index \in -1..MaxIndex : Construct(file_hash, index_all, chunk, index)
    \/ \E block_hash \in {bytes(0), INITIAL_BLOCK.block_hash} : SetPrevious(block_hash)

SpecBlock == Init /\ [][NextBlock]_vars

----------------------------------------------------------------------------
(* C27 *)

\* C27: Block(...) fails exactly when index_all <= 0 or index is not in
\* [0, index_all); a block that was constructed has its content_hash and
\* neither previous_block_hash nor block_hash; setting previous_block_hash
\* sets block_hash, to the hash of the fields
C27_BlockConstruction ==
    /\ last.op = "Block" =>
         LET index_all == last.arg[2]
             index == last.arg[4]
         IN  /\ last.raised # "None" <=> (index_all <= 0 \/ index < 0 \/ index >= index_all)
             /\ last.raised = "None" =>
                  /\ last.ret[1].content_hash
                        = sha256(last.arg[1] \o bytes(index_all) \o last.arg[3] \o bytes(index))
                  /\ last.ret[1].previous_block_hash = None
                  /\ last.ret[1].block_hash = None
    /\ last.op = "previous_block_hash" =>
         /\ last.before.block_hash = None
         /\ last.ret[1].previous_block_hash = last.arg
         /\ last.ret[1].block_hash # None
         /\ last.ret[1].block_hash = HashOfFields(last.ret[1])

\* a block was constructed with the largest index its index_all allows, and
\* its previous_block_hash was set then
C27_Witness ==
    /\ last.op = "previous_block_hash"
    /\ last.ret[1].index = last.ret[1].index_all - 1
    /\ last.ret[1].index >= 1
    /\ last.ret[1].block_hash # None

----------------------------------------------------------------------------
(* C28 *)

\* the files that have a record in the files index of the chain
RecordedFiles(self) == {h \in FileHashes : h \in DOMAIN self.files}

\* contains_file(h) and get_file_blocks(h) agree: true exactly when as many
\* blocks are returned as the index_all recorded for h
CountAgrees(self, h) ==
    contains_file(self, h).ret
        <=> Len(get_file_blocks(self, h).ret) = self.files[h].index_all

\* C28: for every file hash h of a chain built by insert_block and merge_blocks,
\* contains_file(h) and get_file_blocks(h) return, and contains_file(h) is true
\* if and only if get_file_blocks(h) returns as many blocks as the index_all
\* recorded for h
C28_ContainsIffCount ==
    \A c \in Chains : \A h \in RecordedFiles(chains[c]) :
        /\ contains_file(chains[c], h).raised = "None"
        /\ get_file_blocks(chains[c], h).raised = "None"
        /\ CountAgrees(chains[c], h)

\* the same for the files other than the one of the genesis block
ContainsIffCountOfClientFiles ==
    \A c \in Chains : \A h \in RecordedFiles(chains[c]) \ {INITIAL_BLOCK.file_hash} :
        /\ contains_file(chains[c], h).raised = "None"
        /\ get_file_blocks(chains[c], h).raised = "None"
        /\ CountAgrees(chains[c], h)

\* the same where both calls return
ContainsIffCountWhereReturned ==
    \A c \in Chains : \A h \in RecordedFiles(chains[c]) :
        contains_file(chains[c], h).raised = "None"
        /\ get_file_blocks(chains[c], h).raised = "None"
            => CountAgrees(chains[c], h)

----------------------------------------------------------------------------
(* C29 *)

\* the hashes of the blocks of the chain with the file hash and the content
\* hash of block
SameContent(self, block) ==
    {h \in DOMAIN self.chain :
        self.chain[h].file_hash = block.file_hash
        /\ self.chain[h].content_hash = block.content_hash}

\* the places of the files index: file hash, bucket, position in the bucket
Places(self) ==
    UNION { UNION { {<<h, i, k>> : k \in 1..Len(self.files[h].buckets[i].block_hashes)} :
                    i \in 1..Len(self.files[h].buckets) } :
            h \in DOMAIN self.files }

\* the block hash listed at a place
ListedAt(self, p) == self.files[p[1]].buckets[p[2]].block_hashes[p[3]]

\* every block hash a bucket lists is a key of the chain dict
ListedAreStored(self) ==
    \A p \in Places(self) : ListedAt(self, p) \in DOMAIN self.chain

\* every block of the chain dict is listed in the bucket of its content hash,
\* and no block hash is listed at two places
StoredAreListedOnce(self) ==
    LET places == Places(self)
    IN  /\ \A p \in places, q \in places :
               ListedAt(self, p) = ListedAt(self, q) => p = q
        /\ \A block_hash \in DOMAIN self.chain :
               LET x == self.chain[block_hash]
               IN  \E p \in places :
                       /\ ListedAt(self, p) = block_hash
                       /\ p[1] = x.file_hash
                       /\ self.files[p[1]].buckets[p[2]].content_hash = x.content_hash

\* C29: after any insert_block and merge_blocks calls, get_blocks_by_content(b)
\* returns exactly the blocks of the chain with b's file hash and content hash,
\* each once, and [] if there is none; every block hash listed in a bucket of the
\* files index is a key of the chain dict, and every block of the chain dict is
\* listed exactly once, in its own bucket
C29_BlocksByContentExact ==
    \A c \in Chains :
        /\ ListedAreStored(chains[c])
        /\ StoredAreListedOnce(chains[c])
        /\ \A b \in IndexInputs :
               LET r == get_blocks_by_content(chains[c], b)
                   same == SameContent(chains[c], b)
               IN  /\ r.raised = "None"
                   /\ \A i \in 1..Len(r.ret) : r.ret[i] = chains[c].chain[r.ret[i].block_hash]
                   /\ {r.ret[i].block_hash : i \in 1..Len(r.ret)} = same
                   /\ Len(r.ret) = Cardinality(same)

\* a merge took blocks off the chain, and a content of the chain has duplicates
C29_Witness ==
    /\ ConflictMerge
    /\ Len(Losing) >= 1
    /\ \E b \in IndexInputs : Len(get_blocks_by_content(chains[last.c], b).ret) >= 2
    /\ \E b \in IndexInputs : get_blocks_by_content(chains[last.c], b).ret = <<>>

----------------------------------------------------------------------------
(* The scenario of test_invalid_file_block_splitting (tests/blockchain.py:    *)
(* 208-219): on one fresh chain, three blocks of a file of index_all 3 with   *)
(* index 0 and different chunks, then a block with index 1 and the chunk of   *)
(* the second                                                                 *)

\* the chunks the three blocks are drawn from: three texts, and two of them
\* followed by a zero byte
SplitChunks == {<<7>>, <<8>>, <<9>>, <<7, 0>>, <<8, 0>>}

\* the file of the scenario, and the chain it is inserted into
SplitFile == <<1>>
SplitChain == 1

\* the chunks of the blocks inserted so far, in the order of insertion
SplitInserted ==
    LET blocks == Listing(chains[SplitChain])
    IN  [i \in 1..(Len(blocks) - 1) |-> blocks[i + 1].chunk]

\* one of the first three inserts: Block(file_hash, 3, chunk, 0), the chunk new
SplitInsert(chunk) ==
    /\ calls < 3
    /\ \A i \in 1..Len(SplitInserted) : SplitInserted[i] # chunk
    /\ InsertBlock(SplitChain, Block(SplitFile, 3, chunk, 0))

\* the fourth insert: Block(file_hash, 3, chunk of the second block, 1)
SplitFourth ==
    /\ calls = 3
    /\ InsertBlock(SplitChain, Block(SplitFile, 3, SplitInserted[2], 1))

NextSplit ==
    \/ \E chunk \in SplitChunks : SplitInsert(chunk)
    \/ SplitFourth

SpecSplit == Init /\ [][NextSplit]_vars

----------------------------------------------------------------------------
(* C30 *)

\* the fourth insert of the scenario was called
FourthInserted == last.op = "insert_block" /\ calls = 4

\* C30 as stated: after (F,3,X,0), (F,3,Y,0), (F,3,Z,0) on a fresh chain the file
\* is not complete, and inserting (F,3,Y,1) raises nothing, succeeds and
\* completes the file
C30_FourthInsertSucceeds ==
    FourthInserted =>
        /\ ~contains_file(last.before, SplitFile).ret
        /\ last.raised = "None"
        /\ last.ret \in StoredBlocks(chains[SplitChain])
        /\ contains_file(chains[SplitChain], SplitFile).ret

\* C30, amended: after the three inserts three content hashes are recorded for
\* F, as many as index_all, and contains_file(F) is true; inserting (F,3,Y,1),
\* when its content hash is none of the three, raises FileBlockSplitChanged and
\* leaves the chain as it was
C30_FourthInsertRaises ==
    FourthInserted =>
        /\ Cardinality(RecordedContents(last.before, SplitFile)) = 3
        /\ last.before.files[SplitFile].index_all = 3
        /\ contains_file(last.before, SplitFile).raised = "None"
        /\ contains_file(last.before, SplitFile).ret
        /\ last.arg.content_hash \notin RecordedContents(last.before, SplitFile) =>
             /\ last.raised = "FileBlockSplitChangedException"
             /\ chains[SplitChain] = last.before

\* the fourth insert came with a content hash that none of the three blocks has
C30_Witness ==
    /\ FourthInserted
    /\ last.arg.index = 1
    /\ len(last.before) = 4
    /\ last.arg.content_hash \notin RecordedContents(last.before, SplitFile)

----------------------------------------------------------------------------
(* The reading operations of Blockchain, called on chains that insert_block   *)
(* built                                                                      *)

READS ==
    {"get_block_by_hash", "get_blocks_by_content", "contains_file", "get_file_blocks",
     "verify_integrity", "verify_blocks_integrity", "chain", "len"}

\* the arguments of a reading operation on the chain self: file hashes and
\* block hashes in the chain and not in it, blocks, lists of blocks, nothing
ReadInputs(self, op) ==
    IF op \in {"contains_file", "get_file_blocks"} THEN {<<>>, <<1>>, <<2>>}
    ELSE IF op = "get_block_by_hash" THEN DOMAIN self.chain \cup {None, A2.block_hash}
    ELSE IF op = "get_blocks_by_content" THEN IndexInputs \cup {INITIAL_BLOCK, A1}
    ELSE IF op = "verify_blocks_integrity" THEN AnnouncedLists
    ELSE {<<>>}

\* the call of a reading operation (chain.py:79-106, 137-272)
read_call(self, op, arg) ==
    IF op = "get_block_by_hash" THEN Result(self, "None", get_block_by_hash(self, arg))
    ELSE IF op = "get_blocks_by_content" THEN get_blocks_by_content(self, arg)
    ELSE IF op = "contains_file" THEN contains_file(self, arg)
    ELSE IF op = "get_file_blocks" THEN get_file_blocks(self, arg)
    ELSE IF op = "verify_integrity" THEN verify_integrity(self)
    ELSE IF op = "verify_blocks_integrity"
    THEN Result(self, "None", verify_blocks_integrity(self, arg))
    ELSE IF op = "chain" THEN chain(self)
    ELSE Result(self, "None", len(self))

\* a caller reads the chain c
ReadCall(c, op, arg) ==
    /\ calls < MaxCalls
    /\ LET r == read_call(chains[c], op, arg)
       IN  /\ chains' = [chains EXCEPT ![c] = r.self]
           /\ last' = [op |-> op, c |-> c, arg |-> arg, raised |-> r.raised,
                       before |-> chains[c]]
    /\ calls' = calls + 1
    /\ UNCHANGED server

NextReads ==
    \/ \E c \in Chains, new_block \in IndexInputs : InsertBlock(c, new_block)
    \/ \E c \in Chains, op \in READS :
         \E arg \in ReadInputs(chains[c], op) : ReadCall(c, op, arg)

SpecReads == Init /\ [][NextReads]_vars

----------------------------------------------------------------------------
(* C38 *)

\* C38: every reading operation returns without an exception and leaves the
\* chain as it was: its blocks, its files index and its latest block
C38_ReadsPure ==
    last.op \in READS =>
        /\ last.raised = "None"
        /\ chains[last.c] = last.before

\* reading operations that keep C38 on every reached chain: all but the two
\* that go through a file's dict of the files index
ReadsPureButFiles ==
    (last.op \in READS \ {"contains_file", "get_file_blocks"}) =>
        /\ last.raised = "None"
        /\ chains[last.c] = last.before

----------------------------------------------------------------------------
(* The servers with clients that insert and with connections that announce a  *)
(* longer chain forking off below the tip                                     *)

\* the length a connection announces with the block A1, which follows genesis
ForkLens == {4}

NextFork ==
    \/ \E blocks \in Batches : StartInsert(BatchNode, blocks)
    \/ \E n \in Chains, p \in Chains, chain_len \in ForkLens :
         Announcement(n, p, chain_len, <<A1>>)
    \/ \E t \in threads : Acquire(t)
    \/ \E t \in threads : InsertTurn(t)
    \/ \E t \in threads : InsertEnd(t)
    \/ \E t \in threads : SendOk(t)
    \/ \E t \in threads : Broadcast(t)
    \/ \E m \in net : Receive(m)
    \/ \E t \in threads : Decide(t)
    \/ \E t \in threads : Pull(t)
    \/ \E t \in threads : MergeRemove(t)
    \/ \E t \in threads : MergeReinsert(t)
    \/ \E t \in threads : BroadcastLocked(t)

SpecFork == InitServers /\ [][NextFork]_vars

----------------------------------------------------------------------------
(* C39 *)

\* the handler t of NEW_BLOCKS_AVAILABLE takes a step inside the with block
Merging(t) == t.cmd = "new_blocks_available" /\ t.holds /\ t \notin threads'

\* the thread t as the step leaves it
After(t) == {u \in threads' : u.id = t.id /\ u.node = t.node /\ u.cmd = t.cmd /\ u.holds}

\* the length of the chain of t's node when merge_blocks was called: inside
\* merge_blocks the chain has the added blocks and lacks the conflicted ones
LenAtMerge(t) ==
    IF t.pc = "reinsert"
    THEN len(chains[t.node]) - Len(t.added) + Len(t.conflicted)
    ELSE len(chains[t.node])

\* the lock keeps the chain of a node from every thread but the one that
\* holds it
OnlyHolderWrites ==
    \A n \in Chains :
        chains'[n] # chains[n] =>
            \E t \in threads : t.node = n /\ t.holds /\ t \notin threads'

\* the length of a chain does not go down, but inside merge_blocks
NoShorter ==
    \A n \in Chains :
        len(chains'[n]) < len(chains[n]) =>
            \E t \in threads : Merging(t) /\ t.node = n /\ t.pc = "merge"
                               /\ \E u \in After(t) : u.pc = "reinsert"

\* a handler of NEW_BLOCKS_AVAILABLE changes the chain only in merge_blocks,
\* which it calls only with an announced length above the length of the chain
GreaterOnly(t) ==
    /\ chains'[t.node] # chains[t.node] => t.pc \in {"merge", "reinsert"}
    /\ t.pc = "decide" =>
          \A u \in After(t) : u.pc \in {"pull", "merge"} => t.chain_len > len(chains[t.node])
    /\ t.pc = "merge" => t.chain_len > len(chains[t.node])
    /\ t.pc = "reinsert" => t.chain_len > LenAtMerge(t)

\* merge_blocks returns without a conflict: the length has grown by the number
\* of the added blocks
MergedPlain(t) ==
    \A u \in After(t) :
        (t.pc = "merge" /\ u.pc = "broadcast_merged") =>
            /\ len(chains'[t.node]) = len(chains[t.node]) + Len(u.blocks)
            /\ {u.blocks[k] : k \in 1..Len(u.blocks)}
                   = StoredBlocks(chains'[t.node]) \ StoredBlocks(chains[t.node])

\* merge_blocks with a conflict: the removal takes the conflicted blocks from
\* the chain with the added ones, the re-insertion returns and leaves the
\* chain longer than it was when merge_blocks was called
MergedConflict(t) ==
    /\ \A u \in After(t) :
          (t.pc = "merge" /\ u.pc = "reinsert") =>
              /\ u.added # <<>>
              /\ u.conflicted # <<>>
              /\ len(chains'[t.node])
                     = len(chains[t.node]) + Len(u.added) - Len(u.conflicted)
    /\ t.pc = "reinsert" =>
          /\ \E u \in After(t) : u.pc = "broadcast_merged"
          /\ len(chains'[t.node]) = LenAtMerge(t) + Len(t.added)
          /\ len(chains'[t.node]) > LenAtMerge(t)

\* C39: the length of a node's chain is not less after a command than before
\* it; a handler of NEW_BLOCKS_AVAILABLE changes the chain only when the
\* announced length is greater than the length of the chain at the time it has
\* the lock; a merge without a conflict leaves the old length plus the number
\* of the added blocks, a merge with a conflict a greater length than the old
C39_LongestWins ==
    [][/\ OnlyHolderWrites
       /\ NoShorter
       /\ \A t \in threads :
            Merging(t) => (GreaterOnly(t) /\ MergedPlain(t) /\ MergedConflict(t))]_vars

\* a merge with a conflict that removed more blocks than it had added has
\* re-inserted them and goes on to its broadcast
C39_Witness ==
    \E t \in threads :
        /\ t.pc = "broadcast_merged"
        /\ t.conflicted # <<>>
        /\ Len(t.conflicted) > Len(t.added)
        /\ len(chains[t.node]) = 1 + Len(t.conflicted) + Len(t.added)

----------------------------------------------------------------------------
(* C40 *)

\* the announcement m shows the chain self as it stood with m.chain_len
\* blocks: the announced blocks are the newest of these, with the hashes they
\* are announced with
Snapshot(m, self) ==
    LET blocks == Listing(self)
        k == Len(m.blocks)
    IN  /\ m.chain_len <= Len(blocks)
        /\ k <= m.chain_len
        /\ SubSeq(blocks, m.chain_len - k + 1, m.chain_len) = m.blocks

\* the announcements sent in a step
NewlySent == net' \ net

\* the announced blocks are in the sender's chain when m is sent; a block
\* follows the block its previous_block_hash names, so it stands in every chain
\* that holds it at the place it had when it was the newest block
StillStored(m) ==
    \A k \in 1..Len(m.blocks) : m.blocks[k] \in StoredBlocks(chains[m.from])

\* C40: every announcement shows a state of its sender's chain: the chain had
\* the announced length with the announced blocks, linked as announced, as its
\* newest blocks; an announcement whose blocks the sender's chain still holds
\* finds them at the places below the announced length
C40_AnnouncedSnapshot ==
    [][\A m \in NewlySent : StillStored(m) => Snapshot(m, chains[m.from])]_vars

\* the announcements sent inside the with block show the chain of that moment;
\* those sent after INSERT_BLOCKS show the chain as the handler left it unless
\* a merge has linked their blocks anew
SnapshotWhenLocked ==
    [][\A m \in NewlySent :
         (\E t \in threads : t.node = m.from /\ t.holds /\ t \notin threads')
             => (Snapshot(m, chains[m.from]) /\ m.chain_len = len(chains[m.from]))]_vars

====
